---- MODULE Spec2Model ----
(***************************************************************************)
(* A model of cargo-ipa's build subcommand: configuration resolution       *)
(* (context.rs), bridge configuration (swift.rs), the target matrix, the   *)
(* toolchain invocations, manifest generation, bundle assembly and         *)
(* packaging (build.rs).  Paths are sequences of components, strings are   *)
(* TLA+ strings, the filesystem is a function from paths to entries.       *)
(***************************************************************************)
EXTENDS Integers, Sequences, FiniteSets, TLC

VARIABLES
    args,       \* BuildArgs given on the command line
    os_cwd,     \* result of std::env::current_dir() at start-up
    xcode_select, \* what running xcode-select --print-path gives
    fs,         \* filesystem: path -> entry
    cwd,        \* process working directory
    pc,         \* position inside build()
    ctx,        \* the Ctx, once Ctx::new has returned Ok
    statics,    \* static_cargo_args / static_swift_args / binary_name / xcode_toolchain
    map,        \* the Info.plist key/value HashMap
    targets,    \* the Vec returned by gen_targets_list
    idx,        \* index into targets of the target being processed (0 before the loop)
    app,        \* locals of the running gen_app call
    result,     \* what build() returned: Ok, Err(msg) or a panic
    trace       \* history: the operations performed so far

vars == <<args, os_cwd, xcode_select, fs, cwd, pc, ctx, statics, map, targets, idx,
          app, result, trace>>

\* ------------------------------------------------------------------ bounds

\* largest number of keys in the [package.metadata.cargo-ipa.properties] table
MaxProps == 1
\* number of distinct HashMap iteration orders explored for the manifest
NumOrders == 2

\* ------------------------------------------------------- Option and Result

None == [tag |-> "None"]
Some(v) == [tag |-> "Some", val |-> v]
IsSome(o) == o.tag = "Some"

Ok(v) == [tag |-> "Ok", val |-> v]
Err(m) == [tag |-> "Err", msg |-> m]
Panic(m) == [tag |-> "Panic", msg |-> m]
IsOk(r) == r.tag = "Ok"
IsErr(r) == r.tag = "Err"

\* ------------------------------------------------------------ paths (PathBuf)

Join(p, name) == Append(p, name)
Parent(p) == SubSeq(p, 1, Len(p) - 1)
IsPrefix(p, q) == Len(p) <= Len(q) /\ SubSeq(q, 1, Len(p)) = p
\* Path::ancestors: the path itself, then each parent up to the root
Ancestors(p) == [i \in 1..(Len(p) + 1) |-> SubSeq(p, 1, Len(p) + 1 - i)]

RECURSIVE PathStr(_)
\* Path::to_str
PathStr(p) == IF p = <<>> THEN "" ELSE PathStr(Parent(p)) \o "/" \o p[Len(p)]

\* ----------------------------------------------------------------- filesystem

Dir == [kind |-> "dir"]
File(d) == [kind |-> "file", data |-> d, exec |-> FALSE]

Exists(f, p) == p \in DOMAIN f
IsDir(f, p) == p \in DOMAIN f /\ f[p].kind = "dir"
IsFile(f, p) == p \in DOMAIN f /\ f[p].kind = "file"

Put(f, p, e) == [q \in (DOMAIN f) \cup {p} |-> IF q = p THEN e ELSE f[q]]
\* fs::create_dir succeeds only for a new name inside an existing directory
CanCreateDir(f, p) == ~Exists(f, p) /\ Len(p) > 0 /\ IsDir(f, Parent(p))
\* fs::write creates or truncates a file inside an existing directory
CanWrite(f, p) == ~IsDir(f, p) /\ Len(p) > 0 /\ IsDir(f, Parent(p))
\* faulty variant: only the entry itself is removed, what lies below it stays
RemoveAll_shallow(f, p) == [q \in (DOMAIN f) \ {p} |-> f[q]]
\* fs::remove_dir_all / fs::remove_file
RemoveAll(f, p) == [q \in {r \in DOMAIN f : ~IsPrefix(p, r)} |-> f[q]]
\* faulty variant: the tree is copied and the original stays
Rename_copy(f, from, to) ==
    LET moved(q) == to \o SubSeq(q, Len(from) + 1, Len(q))
        kept == {r \in DOMAIN f : ~IsPrefix(to, r)}
        src == {r \in DOMAIN f : IsPrefix(from, r)}
    IN  [q \in kept \cup {moved(r) : r \in src} |->
            IF q \in kept THEN f[q]
            ELSE f[CHOOSE r \in src : moved(r) = q]]
\* fs::rename of a directory tree
Rename(f, from, to) ==
    LET moved(q) == to \o SubSeq(q, Len(from) + 1, Len(q))
        kept == {r \in DOMAIN f : ~IsPrefix(from, r) /\ ~IsPrefix(to, r)}
        src == {r \in DOMAIN f : IsPrefix(from, r)}
    IN  [q \in kept \cup {moved(r) : r \in src} |->
            IF q \in kept THEN f[q]
            ELSE f[CHOOSE r \in src : moved(r) = q]]
Tree(f, p) == {r \in DOMAIN f : IsPrefix(p, r)}

\* ----------------------------------------------------------------- toml values

TString(s) == [kind |-> "String", str |-> s]
TInteger(n) == [kind |-> "Integer", int |-> n]
TBoolean(b) == [kind |-> "Boolean", bool |-> b]
TArray(a) == [kind |-> "Array", arr |-> a]
TTable(t) == [kind |-> "Table", tab |-> t]
EmptyTable == [k \in {} |-> None]

\* Table::get
TableGet(t, key) == IF key \in DOMAIN t THEN Some(t[key]) ELSE None
\* Value::get with a string index: only tables have keys
ValueGet(v, key) == IF v.kind = "Table" THEN TableGet(v.tab, key) ELSE None

Digits == <<"0", "1", "2", "3", "4", "5", "6", "7", "8", "9">>
RECURSIVE NatToString(_)
NatToString(n) ==
    IF n < 10 THEN Digits[n + 1] ELSE NatToString(n \div 10) \o Digits[(n % 10) + 1]

RECURSIVE EscapeToml(_)
\* the basic-string escaping of toml's serializer: quote and backslash
EscapeToml(s) ==
    IF s = "" THEN ""
    ELSE LET c == SubSeq(s, 1, 1)
         IN  (IF c = "\"" \/ c = "\\" THEN "\\" \o c ELSE c) \o EscapeToml(Tail(s))

\* <toml::Value as Display>::to_string for the scalar kinds: a TOML literal
ValueToString(v) ==
    CASE v.kind = "String" -> "\"" \o EscapeToml(v.str) \o "\""
      [] v.kind = "Integer" ->
            IF v.int < 0 THEN "-" \o NatToString(0 - v.int) ELSE NatToString(v.int)
      [] v.kind = "Boolean" -> IF v.bool THEN "true" ELSE "false"

\* ------------------------------------------------------ platforms, architectures

Platforms == {"iOS", "macOS"}
Architectures == {"x86_64", "aarch64"}

Platform_to_string(p) == IF p = "iOS" THEN "ios" ELSE "darwin"
Architecture_to_string(a) == IF a = "x86_64" THEN "x86_64" ELSE "aarch64"

\* faulty variant: the architecture is left out of the triple
target_triple_no_arch(platform, architecture) ==
    "apple-" \o Platform_to_string(platform)

\* the Rust target triple computed at the top of the build loop
target_triple(platform, architecture) ==
    Architecture_to_string(architecture) \o "-apple-" \o Platform_to_string(platform)

\* faulty variant: the Rust architecture name is kept
get_target_triple_rust_arch(platform, architecture) ==
    Architecture_to_string(architecture) \o "-apple-"
        \o (IF platform = "iOS" THEN "ios14" ELSE "macosx11")

\* Swift's target triple
get_target_triple(platform, architecture) ==
    (IF architecture = "x86_64" THEN "x86_64" ELSE "arm64") \o "-apple-"
        \o (IF platform = "iOS" THEN "ios14" ELSE "macosx11")

\* str::replace: every non-overlapping match of from, found left to right,
\* becomes to
RECURSIVE str_replace(_, _, _)
str_replace(s, from, to) ==
    IF Len(s) < Len(from) THEN s
    ELSE IF SubSeq(s, 1, Len(from)) = from
    THEN to \o str_replace(SubSeq(s, Len(from) + 1, Len(s)), from, to)
    ELSE SubSeq(s, 1, 1) \o str_replace(Tail(s), from, to)

\* str::contains
str_contains(s, pat) ==
    \E i \in 1..(Len(s) - Len(pat) + 1) : SubSeq(s, i, i + Len(pat) - 1) = pat

\* compile_and_link_swift: the Swift triple made from the TARGET variable that
\* cargo sets to the Rust triple being compiled for
lib_target_triple(TARGET) ==
    str_replace(str_replace(str_replace(TARGET, "aarch64", "arm64"), "ios", "ios14"),
                "darwin", "macosx11")

\* compile_and_link_swift: the platform inferred from that Swift triple
lib_platform(swift_triple) == IF str_contains(swift_triple, "ios") THEN "iOS" ELSE "macOS"

\* faulty variant: the loops nested the other way round
gen_targets_list_swapped(a) ==
    LET architectures ==
            IF IsSome(a.architecture) THEN <<a.architecture.val>>
            ELSE <<"x86_64", "aarch64">>
        platforms ==
            IF IsSome(a.platform) THEN <<a.platform.val>> ELSE <<"iOS", "macOS">>
        na == Len(architectures)
        np == Len(platforms)
    IN  [i \in 1..(na * np) |->
            <<platforms[((i - 1) \div na) + 1], architectures[((i - 1) % na) + 1]>>]

\* faulty variant: the inner loop always pushes the first architecture
gen_targets_list_dup(a) ==
    LET architectures ==
            IF IsSome(a.architecture) THEN <<a.architecture.val>>
            ELSE <<"x86_64", "aarch64">>
        platforms ==
            IF IsSome(a.platform) THEN <<a.platform.val>> ELSE <<"iOS", "macOS">>
        np == Len(platforms)
    IN  [i \in 1..(Len(architectures) * np) |->
            <<platforms[((i - 1) % np) + 1], architectures[1]>>]

\* Generate a list of targets to compile for: architectures outside, platforms inside
gen_targets_list(a) ==
    LET architectures ==
            IF IsSome(a.architecture) THEN <<a.architecture.val>>
            ELSE <<"x86_64", "aarch64">>
        platforms ==
            IF IsSome(a.platform) THEN <<a.platform.val>> ELSE <<"iOS", "macOS">>
        np == Len(platforms)
    IN  [i \in 1..(Len(architectures) * np) |->
            <<platforms[((i - 1) % np) + 1], architectures[((i - 1) \div np) + 1]>>]

\* ------------------------------------------------- context.rs: Ctx::new

OsError == "os error"
NAME_UNRESOLVED == "No project name could be found!"

\* the Cargo.toml lookup loop: every ancestor is visited and each hit overwrites
\* the previous one (the loop has no break)
locate_cargo_toml(f, path) ==
    LET anc == Ancestors(path)
        hits == {i \in 1..Len(anc) : Exists(f, Join(anc[i], "Cargo.toml"))}
    IN  IF hits = {} THEN None
        ELSE Some(Join(anc[CHOOSE i \in hits : \A j \in hits : j <= i], "Cargo.toml"))

\* fs::read + from_utf8 + parse::<Table>() of Cargo.toml
parse_cargo_toml(f, path, readable) ==
    IF ~(readable /\ IsFile(f, path)) THEN Err("Failed to read Cargo.toml: " \o OsError)
    ELSE IF f[path].data.state # "valid"
         THEN Err("Failed to parse Cargo.toml: " \o f[path].data.state)
         ELSE Ok(f[path].data.table)

\* faulty variant: a cargo-ipa block that is a string is taken as the project name
cargo_ipa_section_string_name(pkg_cfg) ==
    LET metadata == ValueGet(pkg_cfg, "metadata")
    IN  IF ~IsSome(metadata) THEN <<None, None>>
        ELSE LET val == ValueGet(metadata.val, "cargo-ipa")
             IN  IF ~IsSome(val) THEN <<None, None>>
                 ELSE IF val.val.kind = "Table"
                      THEN LET name == TableGet(val.val.tab, "name")
                           IN  IF IsSome(name) /\ name.val.kind = "String"
                               THEN <<Some(name.val.str), Some(val.val.tab)>>
                               ELSE <<None, Some(val.val.tab)>>
                      ELSE IF val.val.kind = "String" THEN <<Some(val.val.str), None>>
                      ELSE <<None, None>>

\* the cargo-ipa section: (project_name_cfg, cfg)
cargo_ipa_section(pkg_cfg) ==
    LET metadata == ValueGet(pkg_cfg, "metadata")
    IN  IF ~IsSome(metadata) THEN <<None, None>>
        ELSE LET val == ValueGet(metadata.val, "cargo-ipa")
             IN  IF ~IsSome(val) THEN <<None, None>>
                 ELSE IF val.val.kind = "Table"
                      THEN LET name == TableGet(val.val.tab, "name")
                           IN  IF IsSome(name) /\ name.val.kind = "String"
                               THEN <<Some(name.val.str), Some(val.val.tab)>>
                               ELSE <<None, Some(val.val.tab)>>
                      ELSE <<None, None>>

\* faulty variant: the configured name is preferred to the CLI argument
resolve_project_name_cfg_first(name_arg, project_name_cfg, project_id) ==
    IF IsSome(project_name_cfg) THEN Ok(project_name_cfg.val)
    ELSE IF IsSome(name_arg) THEN Ok(name_arg.val)
    ELSE Err(NAME_UNRESOLVED)

\* the project name: the CLI argument, else the configured name, else an error
resolve_project_name(name_arg, project_name_cfg, project_id) ==
    IF IsSome(name_arg) THEN Ok(name_arg.val)
    ELSE IF IsSome(project_name_cfg) THEN Ok(project_name_cfg.val)
    ELSE Err(NAME_UNRESOLVED)

\* Ctx::new.  cwd_res is the result of current_dir(); io says which of the
\* fallible filesystem calls the operating system lets succeed.
\* Returns the Result and the filesystem left behind.
Ctx_new(name_arg, cwd_res, f, io) ==
    IF ~IsOk(cwd_res)
    THEN [res |-> Err("Failed to get current directory: " \o OsError), fs |-> f]
    ELSE
    LET found == locate_cargo_toml(f, cwd_res.val) IN
    IF ~IsSome(found) THEN [res |-> Err("Failed to locate Cargo.toml"), fs |-> f]
    ELSE
    LET cargo_toml == found.val IN
    IF Len(cargo_toml) = 0
    THEN [res |-> Err("Failed to get project's root directory"), fs |-> f]
    ELSE
    LET root_dir == Parent(cargo_toml)
        target_dir == Join(root_dir, "target")
        cargo_ipa_dir == Join(target_dir, "cargo-ipa")
    IN
    IF ~IsDir(f, target_dir) /\ ~(io.mkdir_target /\ CanCreateDir(f, target_dir))
    THEN [res |-> Err("Failed to find or create the target directory: " \o OsError),
          fs |-> f]
    ELSE
    LET f1 == IF IsDir(f, target_dir) THEN f ELSE Put(f, target_dir, Dir) IN
    IF ~IsDir(f1, cargo_ipa_dir) /\ ~(io.mkdir_ipa /\ CanCreateDir(f1, cargo_ipa_dir))
    THEN [res |-> Err("Failed to find or create the cargo-ipa directory: " \o OsError),
          fs |-> f1]
    ELSE
    LET f2 == IF IsDir(f1, cargo_ipa_dir) THEN f1 ELSE Put(f1, cargo_ipa_dir, Dir)
        cfg_raw == parse_cargo_toml(f2, cargo_toml, io.read_toml)
    IN
    IF ~IsOk(cfg_raw) THEN [res |-> cfg_raw, fs |-> f2]
    ELSE
    LET pkg_cfg == TableGet(cfg_raw.val, "package") IN
    IF ~IsSome(pkg_cfg)
    THEN [res |-> Err("Invalid Cargo.toml detected! Failed to get package name."),
          fs |-> f2]
    ELSE
    LET id == ValueGet(pkg_cfg.val, "name") IN
    IF ~(IsSome(id) /\ id.val.kind = "String")
    THEN [res |-> Err("Invalid Cargo.toml detected! Failed to get package name."),
          fs |-> f2]
    ELSE
    LET version == ValueGet(pkg_cfg.val, "version") IN
    IF ~(IsSome(version) /\ version.val.kind = "String")
    THEN [res |-> Err("Invalid Cargo.toml detected! Failed to get package version."),
          fs |-> f2]
    ELSE
    LET section == cargo_ipa_section(pkg_cfg.val)
        name == resolve_project_name(name_arg, section[1], id.val.str)
    IN
    IF ~IsOk(name) THEN [res |-> name, fs |-> f2]
    ELSE [res |-> Ok([cfg |-> section[2],
                      project_id |-> id.val.str,
                      project_version |-> version.val.str,
                      project_name |-> name.val,
                      cargo_toml |-> cargo_toml,
                      target_dir |-> target_dir,
                      root_dir |-> root_dir,
                      cargo_ipa_dir |-> cargo_ipa_dir,
                      force_cargo_recompile |-> FALSE]),
          fs |-> f2]

\* --------------------------------------------------------------- swift.rs
\* (message strings are written without the backquotes of the source)

\* strip_prefix('"') then strip_suffix('"'): None when a quote is missing
strip_quotes(s) ==
    IF Len(s) >= 1 /\ SubSeq(s, 1, 1) = "\""
    THEN LET t == Tail(s)
         IN  IF Len(t) >= 1 /\ SubSeq(t, Len(t), Len(t)) = "\""
             THEN Some(SubSeq(t, 1, Len(t) - 1))
             ELSE None
    ELSE None

\* SwiftCtx::new: Ok(SwiftCtx), Err(msg), or a panic from the unwraps on a
\* bridges entry that does not print as a quoted string
SwiftCtx_new(c, release_mode) ==
    IF ~IsSome(c.cfg) THEN Err("Failed to get configuration!")
    ELSE
    LET bridges == TableGet(c.cfg.val, "swift-bridges") IN
    IF ~(IsSome(bridges) /\ bridges.val.kind = "Array")
    THEN Err("No swift-bridges setting set!")
    ELSE
    LET lib == TableGet(c.cfg.val, "swift-library") IN
    IF ~(IsSome(lib) /\ lib.val.kind = "String")
    THEN Err("No swift-library setting set!")
    ELSE
    LET arr == bridges.val.arr
        names == [i \in 1..Len(arr) |-> strip_quotes(ValueToString(arr[i]))]
    IN
    IF \E i \in 1..Len(arr) : ~IsSome(names[i])
    THEN Panic("called Option::unwrap() on a None value")
    ELSE
    LET library_path == Join(c.root_dir, lib.val.str)
        library_name == library_path[Len(library_path)]
        source_path == Join(Join(library_path, "Sources"), library_name)
    IN  Ok([library_name |-> library_name,
            library_path |-> library_path,
            source_path |-> source_path,
            build_path |-> Join(Join(library_path, ".build"),
                                IF release_mode THEN "release" ELSE "debug"),
            generated_code_path |-> Join(source_path, "generated"),
            bridging_header_path |-> Join(source_path, "bridging-header.h"),
            bridges |-> [i \in 1..Len(arr) |-> Join(c.root_dir, names[i].val)]])

\* Arguments to swiftc that don't depend on the target-triple
static_swiftc_args(swift_ctx, release_mode) ==
    <<"--package-path", PathStr(swift_ctx.library_path), "-Xswiftc", "-static",
      "-Xswiftc", "-import-objc-header", "-Xswiftc",
      PathStr(swift_ctx.bridging_header_path)>>
        \o (IF release_mode THEN <<"-c", "release">> ELSE <<>>)

\* faulty variant: the Some branch forgets to set force_cargo_recompile
static_args_no_force(c, release_mode) ==
    LET swift_ctx == SwiftCtx_new(c, release_mode) IN
    IF swift_ctx.tag = "Panic" THEN swift_ctx
    ELSE IF IsErr(swift_ctx)
    THEN [tag |-> "None", force_cargo_recompile |-> c.force_cargo_recompile]
    ELSE [tag |-> "Some",
          swift_args |-> static_swiftc_args(swift_ctx.val, release_mode),
          cargo_args |-> <<"--", "-l", "static=" \o swift_ctx.val.library_name,
                           "-L", PathStr(swift_ctx.val.build_path),
                           "-L", "/usr/lib/swift">>,
          force_cargo_recompile |-> c.force_cargo_recompile]

\* static_args: None when there is no usable bridge configuration, otherwise the
\* static Swift and Cargo arguments; only the Some branch sets force_cargo_recompile
static_args(c, release_mode) ==
    LET swift_ctx == SwiftCtx_new(c, release_mode) IN
    IF swift_ctx.tag = "Panic" THEN swift_ctx
    ELSE IF IsErr(swift_ctx)
    THEN [tag |-> "None", force_cargo_recompile |-> c.force_cargo_recompile]
    ELSE [tag |-> "Some",
          swift_args |-> static_swiftc_args(swift_ctx.val, release_mode),
          cargo_args |-> <<"--", "-l", "static=" \o swift_ctx.val.library_name,
                           "-L", PathStr(swift_ctx.val.build_path),
                           "-L", "/usr/lib/swift">>,
          force_cargo_recompile |-> TRUE]

\* Find the path to the macOS or iOS SDK: what xcrun prints for the SDK name
get_sdk(platform) ==
    "/Xcode/Platforms/" \o (IF platform = "macOS" THEN "macosx" ELSE "iphoneos") \o ".sdk"

\* ------------------------------------------------ build.rs: the manifest

\* This is the opening portion of every Info.plist
PLIST_OPENING ==
    "\n<?xml version=\"1.0\" encoding=\"UTF-8\"?>\n"
    \o "<!DOCTYPE plist PUBLIC \"-//Apple//DTD PLIST 1.0//EN\" "
    \o "\"http://www.apple.com/DTDs/PropertyList-1.0.dtd\">\n"
    \o "<plist version=\"1.0\">\n<dict>\n"
\* This is the closing portion of every Info.plist
PLIST_CLOSING == "\n</dict>\n</plist>\n"

\* the keys build() inserts itself, in insertion order
DefaultKeys ==
    <<"CFBundleExecutable", "CFBundleIdentifier", "CFBundleName", "CFBundleVersion",
      "CFBundleShortVersionString", "CFBundlePackageType">>
\* the five keys whose values are computed from the project
MandatoryKeys ==
    {"CFBundleExecutable", "CFBundleIdentifier", "CFBundleName", "CFBundleVersion",
     "CFBundleShortVersionString"}

\* the properties table of the cargo-ipa section, when it is a table
properties_of(c) ==
    IF ~IsSome(c.cfg) THEN None
    ELSE LET p == TableGet(c.cfg.val, "properties")
         IN  IF IsSome(p) /\ p.val.kind = "Table" THEN Some(p.val.tab) ELSE None

\* binary_name: the example when one is given, else the project id
binary_name_of(a, c) == IF IsSome(a.example) THEN a.example.val ELSE c.project_id

\* faulty variant: the bundle identifier lacks the "com." prefix
default_value_no_prefix(c, binary_name, key) ==
    CASE key = "CFBundleExecutable" -> binary_name
      [] key = "CFBundleIdentifier" -> c.project_id
      [] key = "CFBundleName" -> c.project_name
      [] key = "CFBundleVersion" -> c.project_version
      [] key = "CFBundleShortVersionString" -> c.project_version
      [] key = "CFBundlePackageType" -> "APPL"

\* the value build() inserts for each of its own keys
default_value(c, binary_name, key) ==
    CASE key = "CFBundleExecutable" -> binary_name
      [] key = "CFBundleIdentifier" -> "com." \o c.project_id
      [] key = "CFBundleName" -> c.project_name
      [] key = "CFBundleVersion" -> c.project_version
      [] key = "CFBundleShortVersionString" -> c.project_version
      [] key = "CFBundlePackageType" -> "APPL"

\* faulty variant: CFBundlePackageType is not inserted
inserted_keys_five == {DefaultKeys[i] : i \in 1..5}

\* the keys build() inserts before looking at the overrides
inserted_keys == {DefaultKeys[i] : i \in 1..Len(DefaultKeys)}

\* the HashMap of Info.plist values: the defaults, then every entry of the
\* properties table inserted over them with value.to_string()
manifest_map(c, binary_name) ==
    LET props == properties_of(c)
        over == IF IsSome(props) THEN props.val ELSE EmptyTable
    IN  [k \in inserted_keys \cup DOMAIN over |->
            IF k \in DOMAIN over THEN ValueToString(over[k])
            ELSE default_value(c, binary_name, k)]

\* the XML escaping of character data that gen_info_plist does not do
RECURSIVE XmlEscape(_)
XmlEscape(s) ==
    IF Len(s) = 0 THEN ""
    ELSE LET c == SubSeq(s, 1, 1)
         IN  (IF c = "&" THEN "&amp;" ELSE IF c = "<" THEN "&lt;"
              ELSE IF c = ">" THEN "&gt;" ELSE c) \o XmlEscape(Tail(s))

\* faulty variant: keys and values are escaped as XML character data
RECURSIVE plist_pairs_escaped(_, _)
plist_pairs_escaped(m, order) ==
    IF order = <<>> THEN ""
    ELSE "<key>" \o XmlEscape(Head(order)) \o "</key>\n"
         \o "<string>" \o XmlEscape(m[Head(order)]) \o "</string>\n"
         \o plist_pairs_escaped(m, Tail(order))

RECURSIVE plist_pairs(_, _)
plist_pairs(m, order) ==
    IF order = <<>> THEN ""
    ELSE "<key>" \o Head(order) \o "</key>\n"
         \o "<string>" \o m[Head(order)] \o "</string>\n"
         \o plist_pairs(m, Tail(order))

\* Generate the Info.plist file; order is the sequence in which the HashMap
\* iterator yields the keys
gen_info_plist(m, order) == PLIST_OPENING \o plist_pairs(m, order) \o PLIST_CLOSING

\* ------------------------------------------------ the inputs of a run

StartDir == <<"ws", "proj">>

\* every key a properties table may hold, in the table's (sorted) iteration order
PropKeys == <<"CFBundleExecutable", "CFBundleName", "UIRequiresFullScreen">>
PropValues == {TString("My App"), TString("<R&D>"), TInteger(7)}
PropKeySets ==
    {S \in SUBSET {PropKeys[i] : i \in 1..Len(PropKeys)} : Cardinality(S) <= MaxProps}
PropTables == UNION {[S -> PropValues] : S \in PropKeySets}

Rec1(k, v) == [x \in {k} |-> v]
Merge(t, u) == [k \in DOMAIN t \cup DOMAIN u |-> IF k \in DOMAIN u THEN u[k] ELSE t[k]]

CfgNames == {EmptyTable, Rec1("name", TString("Demo App")), Rec1("name", TInteger(3))}
CfgProps ==
    {EmptyTable, Rec1("properties", TString("oops"))}
        \cup {Rec1("properties", TTable(t)) : t \in PropTables}
CfgBridges ==
    {EmptyTable,
     Rec1("swift-bridges", TArray(<<TString("bridge.rs")>>)),
     Rec1("swift-bridges", TArray(<<TInteger(1)>>)),
     Rec1("swift-bridges", TString("bridge.rs"))}
CfgLibrary == {EmptyTable, Rec1("swift-library", TString("SwiftLib"))}

\* the cargo-ipa tables explored: each group varies one part of the section
PropertyTables == {Merge(Rec1("name", TString("Demo App")), q) : q \in CfgProps \ {EmptyTable}}
CargoIpaTables ==
    {n : n \in CfgNames}
        \cup PropertyTables
        \cup {Merge(Rec1("name", TString("Demo App")), Merge(b, l)) :
                b \in CfgBridges, l \in CfgLibrary}

PackageOk == [name |-> TString("demo"), version |-> TString("1.0")]
WithMetadata(pkg, section) ==
    Merge(pkg, Rec1("metadata", TTable(Rec1("cargo-ipa", section))))
Manifest(pkg) == [state |-> "valid", table |-> Rec1("package", TTable(pkg))]

\* the contents Cargo.toml may have
CargoTomls ==
    {Manifest(WithMetadata(PackageOk, TTable(t))) : t \in CargoIpaTables}
        \cup {Manifest(PackageOk),
              Manifest(Merge(PackageOk, Rec1("metadata", TTable(EmptyTable)))),
              Manifest(WithMetadata(PackageOk, TString("not a table"))),
              Manifest(WithMetadata(PackageOk, TInteger(7))),
              Manifest(WithMetadata(PackageOk, TArray(<<TString("name")>>))),
              Manifest(WithMetadata(Rec1("name", TString("demo")), TString("not a table"))),
              Manifest(WithMetadata(Rec1("version", TString("1.0")), TBoolean(TRUE))),
              Manifest(Rec1("version", TString("1.0"))),
              Manifest([name |-> TInteger(1), version |-> TString("1.0")]),
              Manifest(Rec1("name", TString("demo"))),
              [state |-> "valid", table |-> EmptyTable],
              [state |-> "invalid utf-8", table |-> EmptyTable],
              [state |-> "invalid toml", table |-> EmptyTable]}
DefaultToml == Manifest(WithMetadata(PackageOk, TTable(Rec1("name", TString("Demo App")))))
PropertyTomls == {Manifest(WithMetadata(PackageOk, TTable(t))) : t \in PropertyTables}
\* manifests whose cargo-ipa block is not a table, beyond the usual one
NonTableTomls ==
    {Manifest(WithMetadata(PackageOk, TInteger(7))),
     Manifest(WithMetadata(PackageOk, TArray(<<TString("name")>>)))}

BuildArgsSet ==
    [example : {None, Some("demo_example")},
     release : BOOLEAN,
     name : {None, Some("Demo")},
     platform : {None} \cup {Some(p) : p \in Platforms},
     architecture : {None} \cup {Some(a) : a \in Architectures}]

\* the directories above the start directory, and the places a Cargo.toml lies
BaseFs == [p \in {<<>>, <<"ws">>, StartDir} |-> Dir]
TomlPlaces == {{}, {StartDir}, {<<"ws">>}, {StartDir, <<"ws">>}}
RECURSIVE PutAll(_, _, _)
PutAll(f, ps, e) ==
    IF ps = {} THEN f
    ELSE LET p == CHOOSE q \in ps : TRUE IN PutAll(Put(f, p, e), ps \ {p}, e)

\* what lies at <root>/target before the run: nothing, the directories of an
\* earlier run, or a plain file in the way
TargetStates == {"absent", "dirs", "file"}
WithTarget(f, root, st) ==
    CASE st = "absent" -> f
      [] st = "dirs" ->
            Put(Put(f, Join(root, "target"), Dir),
                Join(Join(root, "target"), "cargo-ipa"), Dir)
      [] st = "file" -> Put(f, Join(root, "target"), File([type |-> "text", text |-> ""]))

InitialFs(toml, places, st) ==
    WithTarget(PutAll(BaseFs, {Join(d, "Cargo.toml") : d \in places},
                      File([type |-> "cargo_toml"] @@ toml)),
               StartDir, st)

XcodePaths == {Ok("/Library/Developer/CommandLineTools"), Err(OsError)}

Running == [tag |-> "Running"]

RECURSIVE Deviations(_)
Deviations(bs) ==
    IF bs = <<>> THEN 0 ELSE (IF Head(bs) THEN 1 ELSE 0) + Deviations(Tail(bs))

Init ==
    /\ args \in BuildArgsSet
    /\ \E toml \in CargoTomls, places \in TomlPlaces, st \in TargetStates,
          cw \in {Ok(StartDir), Err(OsError)}, xc \in XcodePaths :
            \* the environment is varied one part at a time around the usual one
            /\ Deviations(<<toml # DefaultToml, places # {StartDir}, st # "absent",
                            ~IsOk(cw), ~IsOk(xc)>>) <= 1
            \* neither the manifest nor the environment depends on the number of
            \* targets: property tables and unusual environments get one target
            /\ (toml \in PropertyTomls \cup NonTableTomls \/ places # {StartDir} \/ st # "absent"
                    \/ ~IsOk(cw) \/ ~IsOk(xc))
                 => (IsSome(args.platform) /\ IsSome(args.architecture))
            /\ fs = InitialFs(toml, places, st)
            /\ os_cwd = cw
            /\ xcode_select = xc
    /\ cwd = StartDir
    /\ pc = "start"
    /\ ctx = None
    /\ statics = None
    /\ map = None
    /\ targets = <<>>
    /\ idx = 0
    /\ app = None
    /\ result = Running
    /\ trace = <<>>

\* ------------------------------------------------ build.rs: build()

\* what Command::status() can give: exit 0, another exit status, or no launch at all
CmdOutcomes == {"ok", "nonzero", "launch_err"}

\* faulty variant: only a failed launch counts, the exit status is ignored
command_failed_launch_only(st) == st = "launch_err"

\* status.is_err() || !status.unwrap().success()
command_failed(st) == st # "ok"

CLEAN_FAILED == "Failed to clean old build files."
\* faulty variant: the swift stage reuses the message of the cargo stage
SWIFT_FAILED_same_as_cargo == "Cargo failed to compile the project! Aborting."
SWIFT_FAILED == "Swift failed to compile the project! Aborting."
CARGO_FAILED == "Cargo failed to compile the project! Aborting."

platform == targets[idx][1]
architecture == targets[idx][2]
triple == target_triple(platform, architecture)

Event(stage, op, argv, outcome) ==
    [target |-> idx, stage |-> stage, op |-> op, cwd |-> cwd, argv |-> argv,
     outcome |-> outcome]

\* a file written by an external tool, with the directories leading to it
RECURSIVE PutWithParents(_, _, _)
PutWithParents(f, p, e) ==
    IF Len(p) = 0 \/ IsDir(f, Parent(p)) THEN Put(f, p, e)
    ELSE Put(PutWithParents(f, Parent(p), Dir), p, e)

\* where cargo leaves the compiled binary, and where gen_app looks for it
bin_path_of(c, a, tt) ==
    LET dir == Join(Join(c.target_dir, tt), IF a.release THEN "release" ELSE "debug")
        dir2 == IF IsSome(a.example) THEN Join(dir, "examples") ELSE dir
    IN  Join(dir2, binary_name_of(a, c))

app_name_of(c, tt) == c.project_name \o "." \o tt \o ".app"
\* the archive file gen_ipa removes beforehand and returns as the artifact
ipa_file_of(c, tt) == Join(c.cargo_ipa_dir, c.project_name \o tt \o ".ipa")
\* the archive name handed to zip
zip_name_of(c, tt) == c.project_name \o "." \o tt \o ".ipa"

Unchanged_inputs == UNCHANGED <<args, os_cwd, xcode_select>>

\* let ctx = &mut Ctx::new(&args.name).unwrap();
CtxNew ==
    /\ pc = "start"
    /\ \E io \in [mkdir_target : BOOLEAN, mkdir_ipa : BOOLEAN, read_toml : BOOLEAN] :
         LET r == Ctx_new(args.name, os_cwd, fs, io) IN
            /\ fs' = r.fs
            /\ IF IsOk(r.res)
               THEN ctx' = r.res.val /\ pc' = "setup" /\ result' = result
               ELSE ctx' = ctx /\ pc' = "panicked" /\ result' = Panic(r.res.msg)
    /\ Unchanged_inputs
    /\ UNCHANGED <<cwd, statics, map, targets, idx, app, trace>>

\* SETUP: the static arguments, the binary name, the Xcode toolchain
Setup ==
    /\ pc = "setup"
    /\ LET sa == static_args(ctx, args.release)
           base == (IF args.release THEN <<"--release">> ELSE <<>>)
                     \o (IF IsSome(args.example)
                         THEN <<"--example", args.example.val>> ELSE <<>>)
       IN  IF sa.tag = "Panic"
           THEN pc' = "panicked" /\ result' = sa /\ UNCHANGED <<ctx, statics>>
           ELSE /\ ctx' = [ctx EXCEPT !.force_cargo_recompile = sa.force_cargo_recompile]
                /\ statics' =
                     [static_cargo_args |->
                         base \o (IF sa.tag = "Some" THEN sa.cargo_args ELSE <<>>),
                      static_swift_args |->
                         IF sa.tag = "Some" THEN Some(sa.swift_args) ELSE None,
                      binary_name |-> binary_name_of(args, ctx),
                      xcode_toolchain |->
                         (IF IsOk(xcode_select) THEN xcode_select.val
                          ELSE "/Applications/Xcode.app/Contents/Developer")
                            \o "/Toolchains/XcodeDefault.xctoolchain/usr/lib/swift"]
                /\ pc' = "plist"
                /\ result' = result
    /\ Unchanged_inputs
    /\ UNCHANGED <<fs, cwd, map, targets, idx, app, trace>>

Rotate(s, o) == [i \in 1..Len(s) |-> s[((i - 1 + o) % Len(s)) + 1]]
\* one of the orders in which the HashMap may yield its keys
KeyOrder(m, o) ==
    Rotate(SelectSeq(DefaultKeys, LAMBDA k : k \in DOMAIN m)
             \o SelectSeq(PropKeys, LAMBDA k : k \in DOMAIN m /\ k \notin inserted_keys),
           o)

\* GENERATE INFO.PLIST, then the target list the loop runs over
WritePlist ==
    /\ pc = "plist"
    /\ LET m == manifest_map(ctx, statics.binary_name)
           path == Join(ctx.cargo_ipa_dir, "Info.plist")
       IN  /\ map' = m
           /\ \E o \in 0..(NumOrders - 1), ok \in BOOLEAN :
                IF ok /\ CanWrite(fs, path)
                THEN /\ fs' = Put(fs, path,
                                  File([type |-> "text",
                                        text |-> gen_info_plist(m, KeyOrder(m, o))]))
                     /\ targets' = gen_targets_list(args)
                     /\ pc' = "loop"
                     /\ result' = result
                ELSE /\ pc' = "failed"
                     /\ result' = Err("Failed to write to Info.plist! The error was: "
                                        \o OsError \o "\nAborting.")
                     /\ UNCHANGED <<fs, targets>>
    /\ Unchanged_inputs
    /\ UNCHANGED <<cwd, ctx, statics, idx, app, trace>>

\* for (platform, architecture) in gen_targets_list(&args)
NextTarget ==
    /\ pc = "loop"
    /\ idx < Len(targets)
    /\ idx' = idx + 1
    /\ pc' = "clean"
    /\ Unchanged_inputs
    /\ UNCHANGED <<fs, cwd, ctx, statics, map, targets, app, result, trace>>

\* CLEANUP and Ok(())
Finish ==
    /\ pc = "loop"
    /\ idx = Len(targets)
    /\ pc' = "done"
    /\ result' = Ok("Done!")
    /\ Unchanged_inputs
    /\ UNCHANGED <<fs, cwd, ctx, statics, map, targets, idx, app, trace>>

\* if ctx.force_cargo_recompile { cargo clean -p <id> --target <triple> [-r] }
CargoClean ==
    /\ pc = "clean"
    /\ IF ~ctx.force_cargo_recompile
       THEN pc' = "swift" /\ UNCHANGED <<fs, result, trace>>
       ELSE \E st \in CmdOutcomes :
              /\ trace' = Append(trace,
                    Event("clean", "cargo clean",
                          <<"clean", "-p", ctx.project_id, "--target", triple>>
                             \o (IF args.release THEN <<"-r">> ELSE <<>>), st))
              /\ IF ~command_failed(st)
                 THEN /\ fs' = RemoveAll(fs, bin_path_of(ctx, args, triple))
                      /\ pc' = "swift"
                      /\ result' = result
                 ELSE /\ pc' = "failed"
                      /\ result' = Err(CLEAN_FAILED)
                      /\ fs' = fs
    /\ Unchanged_inputs
    /\ UNCHANGED <<cwd, ctx, statics, map, targets, idx, app>>

\* Compile Swift: if let Some(static_swift_args) { swift build ... }
SwiftBuild ==
    /\ pc = "swift"
    /\ IF ~IsSome(statics.static_swift_args)
       THEN pc' = "cargo" /\ UNCHANGED <<result, trace>>
       ELSE \E xcrun \in {"ok", "launch_err"}, st \in CmdOutcomes :
              IF xcrun # "ok"
              THEN /\ pc' = "panicked"
                   /\ result' = Panic("called Result::unwrap() on an Err value")
                   /\ trace' = trace
              ELSE /\ trace' = Append(trace,
                        Event("bridge", "swift build",
                              <<"build", "-Xswiftc", "-target", "-Xswiftc",
                                get_target_triple(platform, architecture),
                                "--sdk", get_sdk(platform)>>
                                 \o statics.static_swift_args.val, st))
                   /\ IF ~command_failed(st)
                      THEN pc' = "cargo" /\ result' = result
                      ELSE /\ pc' = "failed"
                           /\ result' = Err(SWIFT_FAILED)
    /\ Unchanged_inputs
    /\ UNCHANGED <<fs, cwd, ctx, statics, map, targets, idx, app>>

Contains(s, x) == \E i \in 1..Len(s) : s[i] = x

\* faulty variant: the separator and the toolchain search path are added only
\* when the static arguments carry link arguments
rustc_args_plain(st_args, toolchain, p, tt) ==
    LET a1 == <<"rustc", "--target", tt, "-q">> \o st_args
    IN  IF Contains(a1, "--")
        THEN a1 \o <<"-L", toolchain \o "/" \o (IF p = "macOS" THEN "macosx" ELSE "iphoneos")>>
        ELSE a1

\* the argument vector of the cargo rustc call
rustc_args(st_args, toolchain, p, tt) ==
    LET a1 == <<"rustc", "--target", tt, "-q">> \o st_args
        a2 == IF Contains(a1, "--") THEN a1 ELSE Append(a1, "--")
    IN  a2 \o <<"-L", toolchain \o "/" \o (IF p = "macOS" THEN "macosx" ELSE "iphoneos")>>

\* faulty variant: every platform is handed to gen_ipa
after_compile_always_ipa(p) == "ipa_stale"
\* Make the .ipa or .app file, as appropriate: the function entered after the build
after_compile(p) == IF p = "macOS" THEN "app_dir" ELSE "ipa_stale"

\* Compile Rust, then enter gen_app (macOS) or gen_ipa (iOS)
CargoRustc ==
    /\ pc = "cargo"
    /\ \E st \in CmdOutcomes :
         /\ trace' = Append(trace,
               Event("primary", "cargo rustc",
                     rustc_args(statics.static_cargo_args, statics.xcode_toolchain,
                                platform, triple), st))
         /\ IF ~command_failed(st)
            THEN /\ fs' = PutWithParents(fs, bin_path_of(ctx, args, triple),
                                         File([type |-> "binary", triple |-> triple,
                                               release |-> args.release]))
                 /\ pc' = after_compile(platform)
                 /\ app' = IF platform = "macOS"
                           THEN [macos |-> TRUE, caller |-> "build"] ELSE app
                 /\ result' = result
            ELSE /\ pc' = "failed"
                 /\ result' = Err(CARGO_FAILED)
                 /\ UNCHANGED <<fs, app>>
    /\ Unchanged_inputs
    /\ UNCHANGED <<cwd, ctx, statics, map, targets, idx>>

\* ------------------------------------------------ build.rs: gen_ipa, first half

\* Make sure the IPA file doesn't already exist
IpaRemoveStale ==
    /\ pc = "ipa_stale"
    /\ LET ipa_file == ipa_file_of(ctx, triple) IN
       \E ok \in BOOLEAN :
         /\ trace' = Append(trace, Event("package", "remove stale ipa", <<>>,
                                         IF ok \/ ~Exists(fs, ipa_file) THEN "ok" ELSE "err"))
         /\ IF ~Exists(fs, ipa_file)
            THEN pc' = "ipa_payload" /\ UNCHANGED <<fs, result>>
            ELSE IF ok
            THEN pc' = "ipa_payload" /\ fs' = RemoveAll(fs, ipa_file) /\ result' = result
            ELSE /\ pc' = "failed"
                 /\ result' = Err("Error: IPA file already exists, and can't be removed: "
                                    \o OsError)
                 /\ fs' = fs
    /\ Unchanged_inputs
    /\ UNCHANGED <<cwd, ctx, statics, map, targets, idx, app>>

\* Make a new Payload folder inside our build directory, then call gen_app
PayloadFresh ==
    /\ pc = "ipa_payload"
    /\ LET payload_folder == Join(ctx.cargo_ipa_dir, "Payload") IN
       \E rm_ok \in BOOLEAN, mk_ok \in BOOLEAN :
         LET removed == IF Exists(fs, payload_folder) /\ rm_ok
                        THEN RemoveAll(fs, payload_folder) ELSE fs
         IN  IF Exists(fs, payload_folder) /\ ~rm_ok
             THEN /\ pc' = "failed"
                  /\ result' = Err("Error: Build files already exist, and can't be removed: "
                                     \o OsError)
                  /\ trace' = Append(trace, Event("package", "fresh Payload", <<>>, "err"))
                  /\ UNCHANGED <<fs, app>>
             ELSE IF ~(mk_ok /\ CanCreateDir(removed, payload_folder))
             THEN /\ pc' = "failed"
                  /\ result' = Err("Error: Failed to create build directory: " \o OsError)
                  /\ trace' = Append(trace, Event("package", "fresh Payload", <<>>, "err"))
                  /\ fs' = removed
                  /\ app' = app
             ELSE /\ pc' = "app_dir"
                  /\ fs' = Put(removed, payload_folder, Dir)
                  /\ app' = [macos |-> FALSE, caller |-> "gen_ipa"]
                  /\ trace' = Append(trace, Event("package", "fresh Payload", <<>>, "ok"))
                  /\ result' = result
    /\ Unchanged_inputs
    /\ UNCHANGED <<cwd, ctx, statics, map, targets, idx>>

\* ------------------------------------------------ build.rs: gen_app

app_path_of(c, tt) == Join(c.cargo_ipa_dir, app_name_of(c, tt))
\* (new_info_plist_path, new_bin_path): the layout differs between iOS and macOS
new_info_plist_path(c, a, tt, macos) ==
    IF macos THEN Join(Join(app_path_of(c, tt), "Contents"), "Info.plist")
    ELSE Join(app_path_of(c, tt), "Info.plist")
\* faulty variant: the macOS binary is put next to the manifest
new_bin_path_flat(c, a, tt, macos) ==
    IF macos THEN Join(Join(app_path_of(c, tt), "Contents"), binary_name_of(a, c))
    ELSE Join(app_path_of(c, tt), binary_name_of(a, c))
new_bin_path(c, a, tt, macos) ==
    IF macos
    THEN Join(Join(Join(app_path_of(c, tt), "Contents"), "MacOS"), binary_name_of(a, c))
    ELSE Join(app_path_of(c, tt), binary_name_of(a, c))

\* the filesystem a gen_app call that succeeds leaves, given one without the bundle
gen_app_ok(f, c, a, tt, macos) ==
    LET app_path == app_path_of(c, tt)
        f0 == Put(f, app_path, Dir)
        f1 == IF macos
              THEN Put(Put(f0, Join(app_path, "Contents"), Dir),
                       Join(Join(app_path, "Contents"), "MacOS"), Dir)
              ELSE f0
        f2 == Put(f1, new_info_plist_path(c, a, tt, macos),
                  File(f1[Join(c.cargo_ipa_dir, "Info.plist")].data))
        f3 == Put(f2, new_bin_path(c, a, tt, macos), File(f2[bin_path_of(c, a, tt)].data))
    IN  [f3 EXCEPT ![new_bin_path(c, a, tt, macos)].exec = TRUE]

\* the filesystem the loop body leaves for one target when every step succeeds
target_ok(f, c, a, p, arch) ==
    LET tt == target_triple(p, arch)
        f1 == PutWithParents(f, bin_path_of(c, a, tt),
                             File([type |-> "binary", triple |-> tt, release |-> a.release]))
        payload == Join(c.cargo_ipa_dir, "Payload")
    IN  IF p = "macOS" THEN gen_app_ok(f1, c, a, tt, TRUE)
        ELSE LET f2 == Put(RemoveAll(f1, payload), payload, Dir)
                 f3 == gen_app_ok(f2, c, a, tt, FALSE)
                 f4 == Rename(f3, app_path_of(c, tt), Join(payload, app_name_of(c, tt)))
                 archive == Join(c.cargo_ipa_dir, zip_name_of(c, tt))
             IN  Put(f4, archive,
                     File([type |-> "zip",
                           entries |-> [r \in {SubSeq(q, Len(c.cargo_ipa_dir) + 1, Len(q)) :
                                                 q \in Tree(f4, payload)} |->
                                            f4[c.cargo_ipa_dir \o r]]]))

\* remove a bundle left by an earlier run, then create the .app directory
AppDirFresh ==
    /\ pc = "app_dir"
    /\ LET app_path == app_path_of(ctx, triple) IN
       \E rm_ok \in BOOLEAN, mk_ok \in BOOLEAN :
         LET removed == IF Exists(fs, app_path) /\ rm_ok
                        THEN RemoveAll(fs, app_path) ELSE fs
         IN  IF Exists(fs, app_path) /\ ~rm_ok
             THEN /\ pc' = "failed"
                  /\ result' = Err("Error: App file already exists, and can't be removed: "
                                     \o OsError)
                  /\ trace' = Append(trace, Event("assemble", "fresh app dir", <<>>, "err"))
                  /\ fs' = fs
             ELSE IF ~(mk_ok /\ CanCreateDir(removed, app_path))
             THEN /\ pc' = "failed"
                  /\ result' = Err("Error: Failed to create .app directory: " \o OsError)
                  /\ trace' = Append(trace, Event("assemble", "fresh app dir", <<>>, "err"))
                  /\ fs' = removed
             ELSE /\ pc' = IF app.macos THEN "app_layout" ELSE "app_plist"
                  /\ fs' = Put(removed, app_path, Dir)
                  /\ trace' = Append(trace,
                        Event("assemble", "fresh app dir",
                              IF Exists(fs, app_path) THEN <<"remove_dir_all">> ELSE <<>>,
                              "ok"))
                  /\ result' = result
    /\ Unchanged_inputs
    /\ UNCHANGED <<cwd, ctx, statics, map, targets, idx, app>>

\* macOS only: the Contents folder and the MacOS folder inside it
AppLayout ==
    /\ pc = "app_layout"
    /\ LET contents_path == Join(app_path_of(ctx, triple), "Contents")
           macos_path == Join(contents_path, "MacOS")
       IN
       \E c_ok \in BOOLEAN, m_ok \in BOOLEAN :
         IF ~(c_ok /\ CanCreateDir(fs, contents_path))
         THEN /\ pc' = "failed"
              /\ result' = Err("Error: Failed to create Contents directory in the app: "
                                 \o OsError)
              /\ trace' = Append(trace, Event("assemble", "layout", <<>>, "err"))
              /\ fs' = fs
         ELSE IF ~m_ok
         THEN /\ pc' = "failed"
              /\ result' = Err("Error: Failed to create MacOS directory in the app: "
                                 \o OsError)
              /\ trace' = Append(trace, Event("assemble", "layout", <<>>, "err"))
              /\ fs' = Put(fs, contents_path, Dir)
         ELSE /\ pc' = "app_plist"
              /\ fs' = Put(Put(fs, contents_path, Dir), macos_path, Dir)
              /\ trace' = Append(trace, Event("assemble", "layout", <<>>, "ok"))
              /\ result' = result
    /\ Unchanged_inputs
    /\ UNCHANGED <<cwd, ctx, statics, map, targets, idx, app>>

\* faulty variant: a failed manifest copy reports the error of the binary copy
PLIST_COPY_FAILED_as_binary == "Error: Failed to copy the binary to the new app"
PLIST_COPY_FAILED == "Error: Failed to copy Info.plist to the new app"

\* Copying Info.plist...
CopyPlist ==
    /\ pc = "app_plist"
    /\ LET from == Join(ctx.cargo_ipa_dir, "Info.plist")
           to == new_info_plist_path(ctx, args, triple, app.macos)
       IN
       \E ok \in BOOLEAN :
         IF ok /\ IsFile(fs, from) /\ CanWrite(fs, to)
         THEN /\ pc' = "app_binary"
              /\ fs' = Put(fs, to, File(fs[from].data))
              /\ trace' = Append(trace, Event("assemble", "copy Info.plist", <<>>, "ok"))
              /\ result' = result
         ELSE /\ pc' = "failed"
              /\ result' = Err(PLIST_COPY_FAILED)
              /\ trace' = Append(trace, Event("assemble", "copy Info.plist", <<>>, "err"))
              /\ fs' = fs
    /\ Unchanged_inputs
    /\ UNCHANGED <<cwd, ctx, statics, map, targets, idx, app>>

\* Copying the binary...
CopyBinary ==
    /\ pc = "app_binary"
    /\ LET from == bin_path_of(ctx, args, triple)
           to == new_bin_path(ctx, args, triple, app.macos)
       IN
       \E ok \in BOOLEAN :
         IF ok /\ IsFile(fs, from) /\ CanWrite(fs, to)
         THEN /\ pc' = "app_chmod"
              /\ fs' = Put(fs, to, File(fs[from].data))
              /\ trace' = Append(trace, Event("assemble", "copy binary", <<>>, "ok"))
              /\ result' = result
         ELSE /\ pc' = "failed"
              /\ result' = Err("Error: Failed to copy the binary to the new app")
              /\ trace' = Append(trace, Event("assemble", "copy binary", <<>>, "err"))
              /\ fs' = fs
    /\ Unchanged_inputs
    /\ UNCHANGED <<cwd, ctx, statics, map, targets, idx, app>>

\* faulty variant: gen_ipa recreates Payload again after the bundle is assembled
gen_app_return_to_payload(caller) == IF caller = "gen_ipa" THEN "ipa_payload" ELSE "loop"

\* where Ok(app_name) returns to: the rest of gen_ipa, or the build loop
gen_app_return(caller) == IF caller = "gen_ipa" THEN "ipa_move" ELSE "loop"

\* chmod +x <binary>, then Ok(app_name) to the caller
Chmod ==
    /\ pc = "app_chmod"
    /\ LET bin == new_bin_path(ctx, args, triple, app.macos) IN
       \E st \in CmdOutcomes :
         /\ trace' = Append(trace, Event("assemble", "chmod", <<"+x", PathStr(bin)>>, st))
         /\ IF ~command_failed(st) /\ IsFile(fs, bin)
            THEN /\ pc' = gen_app_return(app.caller)
                 /\ fs' = [fs EXCEPT ![bin].exec = TRUE]
                 /\ app' = None
                 /\ result' = result
            ELSE /\ pc' = "failed"
                 /\ result' = Err("Error: Failed to make the app's binary executable")
                 /\ UNCHANGED <<fs, app>>
    /\ Unchanged_inputs
    /\ UNCHANGED <<cwd, ctx, statics, map, targets, idx>>

\* ------------------------------------------------ build.rs: gen_ipa, second half

\* fs::rename of the bundle into Payload
IpaMove ==
    /\ pc = "ipa_move"
    /\ LET from == app_path_of(ctx, triple)
           to == Join(Join(ctx.cargo_ipa_dir, "Payload"), app_name_of(ctx, triple))
       IN
       \E ok \in BOOLEAN :
         IF ok /\ IsDir(fs, from) /\ IsDir(fs, Parent(to)) /\ ~IsFile(fs, to)
         THEN /\ pc' = "ipa_chdir"
              /\ fs' = Rename(fs, from, to)
              /\ trace' = Append(trace, Event("package", "move bundle", <<>>, "ok"))
              /\ result' = result
         ELSE /\ pc' = "failed"
              /\ result' = Err("Error: Failed to copy .app file for compression: "
                                 \o OsError)
              /\ trace' = Append(trace, Event("package", "move bundle", <<>>, "err"))
              /\ fs' = fs
    /\ Unchanged_inputs
    /\ UNCHANGED <<cwd, ctx, statics, map, targets, idx, app>>

\* faulty variant: the packager goes to the project root instead
build_directory_root(c) == c.root_dir
\* the directory gen_ipa makes the working directory: &ctx.cargo_ipa_dir
build_directory(c) == c.cargo_ipa_dir

\* std::env::set_current_dir(&ctx.cargo_ipa_dir).expect(...)
IpaChdir ==
    /\ pc = "ipa_chdir"
    /\ \E ok \in BOOLEAN :
         IF ok /\ IsDir(fs, build_directory(ctx))
         THEN pc' = "ipa_zip" /\ cwd' = build_directory(ctx) /\ result' = result
         ELSE /\ pc' = "panicked"
              /\ result' = Panic("Failed to go to build directory")
              /\ cwd' = cwd
    /\ Unchanged_inputs
    /\ UNCHANGED <<fs, ctx, statics, map, targets, idx, app, trace>>

\* faulty variant: an entry the archive already holds is kept instead of replaced
zip_entries_keep_old(f, dir, archive) ==
    LET old == IF IsFile(f, archive) /\ f[archive].data.type = "zip"
               THEN f[archive].data.entries ELSE [q \in {} |-> Dir]
        new == Tree(f, Join(dir, "Payload"))
        rel(q) == SubSeq(q, Len(dir) + 1, Len(q))
    IN  [r \in DOMAIN old \cup {rel(q) : q \in new} |->
            IF r \in DOMAIN old THEN old[r] ELSE f[dir \o r]]

\* the entries zip -r <archive> Payload records: paths relative to the working
\* directory; entries of an archive that already exists are kept or replaced
zip_entries(f, dir, archive) ==
    LET old == IF IsFile(f, archive) /\ f[archive].data.type = "zip"
               THEN f[archive].data.entries ELSE [q \in {} |-> Dir]
        new == Tree(f, Join(dir, "Payload"))
        rel(q) == SubSeq(q, Len(dir) + 1, Len(q))
    IN  [r \in DOMAIN old \cup {rel(q) : q \in new} |->
            IF r \in {rel(q) : q \in new} THEN f[dir \o r] ELSE old[r]]

\* Zip the Payload folder into our ipa file, then Ok(ipa_file)
IpaZip ==
    /\ pc = "ipa_zip"
    /\ LET archive == Join(cwd, zip_name_of(ctx, triple)) IN
       \E st \in CmdOutcomes :
         /\ trace' = Append(trace,
               Event("package", "zip", <<"-r", zip_name_of(ctx, triple), "Payload">>, st))
         /\ IF ~command_failed(st) /\ IsDir(fs, Join(cwd, "Payload"))
            THEN /\ pc' = "loop"
                 /\ fs' = Put(fs, archive,
                              File([type |-> "zip",
                                    entries |-> zip_entries(fs, cwd, archive)]))
                 /\ result' = result
            ELSE /\ pc' = "failed"
                 /\ result' = Err("Error: Failed to compress the app into an IPA! Aborting.")
                 /\ fs' = fs
    /\ Unchanged_inputs
    /\ UNCHANGED <<cwd, ctx, statics, map, targets, idx, app>>

\* ------------------------------------------------ the specification

Next ==
    \/ CtxNew
    \/ Setup
    \/ WritePlist
    \/ NextTarget
    \/ Finish
    \/ CargoClean
    \/ SwiftBuild
    \/ CargoRustc
    \/ IpaRemoveStale
    \/ PayloadFresh
    \/ AppDirFresh
    \/ AppLayout
    \/ CopyPlist
    \/ CopyBinary
    \/ Chmod
    \/ IpaMove
    \/ IpaChdir
    \/ IpaZip

Spec == Init /\ [][Next]_vars

\* ------------------------------------------------ a run after earlier runs

\* what earlier runs named Demo, built with --example old_example, left behind
OldPlist == File([type |-> "text", text |-> "old manifest"])
OldBinary == File([type |-> "binary", triple |-> "old", release |-> FALSE])
IpaDir == Join(Join(StartDir, "target"), "cargo-ipa")
IosTriples == {target_triple("iOS", a) : a \in Architectures}
MacTriples == {target_triple("macOS", a) : a \in Architectures}

\* the filesystem holding the given <<path, entry>> pairs
FsOf(pairs) == [p \in {x[1] : x \in pairs} |-> (CHOOSE x \in pairs : x[1] = p)[2]]
\* a finished macOS bundle
MacBundle(dir, tt) ==
    LET b == Join(dir, "Demo." \o tt \o ".app") IN
    {<<b, Dir>>, <<Join(b, "Contents"), Dir>>,
     <<Join(Join(b, "Contents"), "Info.plist"), OldPlist>>,
     <<Join(Join(b, "Contents"), "MacOS"), Dir>>,
     <<Join(Join(Join(b, "Contents"), "MacOS"), "old_example"), OldBinary>>}
\* a finished iOS bundle
IosBundle(dir, tt) ==
    LET b == Join(dir, "Demo." \o tt \o ".app") IN
    {<<b, Dir>>, <<Join(b, "Info.plist"), OldPlist>>, <<Join(b, "old_example"), OldBinary>>}
\* the bundle directory an assembly that failed half-way leaves behind
PartialBundle(dir, tt) ==
    LET b == Join(dir, "Demo." \o tt \o ".app") IN
    {<<b, Dir>>, <<Join(b, "Contents"), Dir>>,
     <<Join(Join(b, "Contents"), "Info.plist"), OldPlist>>,
     <<Join(b, "old_example"), OldBinary>>}
\* the staging directory holding the bundle of the last iOS target
Staged(dir, tt) == {<<Join(dir, "Payload"), Dir>>} \cup IosBundle(Join(dir, "Payload"), tt)
\* the archive zip wrote for an iOS target
Archive(dir, tt) ==
    <<Join(dir, "Demo." \o tt \o ".ipa"),
      File([type |-> "zip", entries |-> FsOf(Staged(<<>>, tt))])>>

StaleStates == {"prior_run", "prior_failure", "foreign_archive"}
StaleFs(st) ==
    LET base == InitialFs(DefaultToml, {StartDir}, "dirs")
                    @@ FsOf({<<Join(IpaDir, "Info.plist"), OldPlist>>})
    IN  CASE st = "prior_run" ->
                base @@ FsOf(UNION {MacBundle(IpaDir, tt) : tt \in MacTriples}
                               \cup Staged(IpaDir, target_triple("iOS", "aarch64"))
                               \cup {Archive(IpaDir, tt) : tt \in IosTriples})
          [] st = "prior_failure" ->
                base @@ FsOf(UNION {PartialBundle(IpaDir, tt) : tt \in MacTriples \cup IosTriples}
                               \cup Staged(IpaDir, target_triple("iOS", "x86_64")))
          [] st = "foreign_archive" ->
                base @@ FsOf({<<Join(IpaDir, "Demo" \o tt \o ".ipa"), OldPlist>> :
                                tt \in IosTriples})

\* the run starts in a project whose target/cargo-ipa directory is not empty
InitRerun ==
    /\ args \in {a \in BuildArgsSet : a.name = Some("Demo")}
    /\ \E st \in StaleStates : fs = StaleFs(st)
    /\ os_cwd = Ok(StartDir)
    /\ xcode_select = Ok("/Library/Developer/CommandLineTools")
    /\ cwd = StartDir
    /\ pc = "start"
    /\ ctx = None
    /\ statics = None
    /\ map = None
    /\ targets = <<>>
    /\ idx = 0
    /\ app = None
    /\ result = Running
    /\ trace = <<>>

InitAny == Init \/ InitRerun

\* a run from a fresh project or from one that earlier runs have used
SpecRerun == InitAny /\ [][Next]_vars

\* ------------------------------------------------ a failed run, then a second run

BridgeToml ==
    Manifest(WithMetadata(PackageOk,
        TTable(Merge(Rec1("name", TString("Demo App")),
                     Merge(Rec1("swift-bridges", TArray(<<TString("bridge.rs")>>)),
                           Rec1("swift-library", TString("SwiftLib")))))))

\* the first run starts in a fresh project
InitRecovery ==
    /\ args \in BuildArgsSet
    /\ \E toml \in {DefaultToml, BridgeToml} : fs = InitialFs(toml, {StartDir}, "absent")
    /\ os_cwd = Ok(StartDir)
    /\ xcode_select = Ok("/Library/Developer/CommandLineTools")
    /\ cwd = StartDir
    /\ pc = "start"
    /\ ctx = None
    /\ statics = None
    /\ map = None
    /\ targets = <<>>
    /\ idx = 0
    /\ app = None
    /\ result = Running
    /\ trace = <<>>

RestartEvent ==
    [target |-> 0, stage |-> "restart", op |-> "restart", cwd |-> StartDir,
     argv |-> <<>>, outcome |-> "ok"]
\* the run in progress is the one that follows a failed run
Recovering == trace # <<>> /\ trace[1] = RestartEvent

\* the tool is started again, with the same arguments and in the same directory,
\* on the filesystem the failed run left
Restart ==
    /\ pc \in {"failed", "panicked"}
    /\ ~Recovering
    /\ pc' = "start"
    /\ cwd' = StartDir
    /\ ctx' = None
    /\ statics' = None
    /\ map' = None
    /\ targets' = <<>>
    /\ idx' = 0
    /\ app' = None
    /\ result' = Running
    /\ trace' = <<RestartEvent>>
    /\ UNCHANGED <<args, os_cwd, xcode_select, fs>>

\* in the second run every stage succeeds
Succeeds == Recovering => pc' \notin {"failed", "panicked"}

NextRecovery ==
    \/ CtxNew /\ Succeeds
    \/ Setup /\ Succeeds
    \/ WritePlist /\ Succeeds
    \/ NextTarget /\ Succeeds
    \/ Finish /\ Succeeds
    \/ CargoClean /\ Succeeds
    \/ SwiftBuild /\ Succeeds
    \/ CargoRustc /\ Succeeds
    \/ IpaRemoveStale /\ Succeeds
    \/ PayloadFresh /\ Succeeds
    \/ AppDirFresh /\ Succeeds
    \/ AppLayout /\ Succeeds
    \/ CopyPlist /\ Succeeds
    \/ CopyBinary /\ Succeeds
    \/ Chmod /\ Succeeds
    \/ IpaMove /\ Succeeds
    \/ IpaChdir /\ Succeeds
    \/ IpaZip /\ Succeeds
    \/ Restart

SpecRecovery == InitRecovery /\ [][NextRecovery]_vars

\* ------------------------------------------------ properties

Last(sq) == sq[Len(sq)]
LoopPcs ==
    {"loop", "clean", "swift", "cargo", "ipa_stale", "ipa_payload", "app_dir",
     "app_layout", "app_plist", "app_binary", "app_chmod", "ipa_move", "ipa_chdir",
     "ipa_zip"}
\* the loop over gen_targets_list(&args) has been entered
TargetsGenerated == pc \in LoopPcs \/ pc = "done" \/ idx > 0

SelectedPlatforms == IF IsSome(args.platform) THEN {args.platform.val} ELSE Platforms
SelectedArchitectures ==
    IF IsSome(args.architecture) THEN {args.architecture.val} ELSE Architectures

\* C1: for every platform and architecture selector, the target list has
\* (1 or 2 platforms) x (1 or 2 architectures) entries, holds every pair of the
\* selected-or-default sets, and holds no pair twice.
C1_TargetMatrix ==
    TargetsGenerated =>
        /\ Len(targets) = (IF IsSome(args.platform) THEN 1 ELSE 2)
                            * (IF IsSome(args.architecture) THEN 1 ELSE 2)
        /\ \A p \in SelectedPlatforms, a \in SelectedArchitectures :
                \E i \in 1..Len(targets) : targets[i] = <<p, a>>
        /\ \A i, j \in 1..Len(targets) : i # j => targets[i] # targets[j]

C1_Witness ==
    /\ TargetsGenerated
    /\ ~IsSome(args.platform)
    /\ ~IsSome(args.architecture)
    /\ Len(targets) = 4

ArchRank(a) == IF a = "x86_64" THEN 1 ELSE 2
PlatformRank(p) == IF p = "iOS" THEN 1 ELSE 2
RustcEvents == SelectSeq(trace, LAMBDA e : e.op = "cargo rustc")

\* C2: the list is emitted with the architecture as outer loop and the platform as
\* inner loop (with no selectors exactly iOS/x86_64, macOS/x86_64, iOS/aarch64,
\* macOS/aarch64) and the build loop compiles the targets in exactly that order.
C2_TargetOrder ==
    TargetsGenerated =>
        /\ (~IsSome(args.platform) /\ ~IsSome(args.architecture)) =>
                targets = << <<"iOS", "x86_64">>, <<"macOS", "x86_64">>,
                             <<"iOS", "aarch64">>, <<"macOS", "aarch64">> >>
        /\ \A i, j \in 1..Len(targets) : i < j =>
                \/ ArchRank(targets[i][2]) < ArchRank(targets[j][2])
                \/ /\ targets[i][2] = targets[j][2]
                   /\ PlatformRank(targets[i][1]) < PlatformRank(targets[j][1])
        /\ \A k \in 1..Len(RustcEvents) :
                /\ RustcEvents[k].target = k
                /\ RustcEvents[k].argv[3]
                     = targets[k][2] \o "-apple-"
                         \o (IF targets[k][1] = "iOS" THEN "ios" ELSE "darwin")

C2_Witness ==
    /\ ~IsSome(args.platform)
    /\ ~IsSome(args.architecture)
    /\ Len(RustcEvents) = 4
    /\ pc = "done"

\* the bundle, staged bundle and archives that belong to the current target
TargetArtifacts ==
    {app_path_of(ctx, triple),
     Join(Join(ctx.cargo_ipa_dir, "Payload"), app_name_of(ctx, triple)),
     ipa_file_of(ctx, triple),
     Join(ctx.cargo_ipa_dir, zip_name_of(ctx, triple))}
FailedCompile ==
    /\ trace # <<>>
    /\ Last(trace).op = "cargo rustc"
    /\ Last(trace).outcome # "ok"

\* C3: when cargo rustc fails to launch or exits non-zero for a target, no bundle
\* directory, staged bundle or archive is created for that target (gen_app and
\* gen_ipa are not entered for it), and the error returned is the primary-compile
\* error, which no other stage returns.
C3_CompileFailure ==
    /\ FailedCompile =>
        /\ pc = "failed"
        /\ result = Err("Cargo failed to compile the project! Aborting.")
        /\ \A i \in 1..Len(trace) :
                trace[i].target = idx => trace[i].stage \notin {"assemble", "package"}
        /\ \A q \in TargetArtifacts : ~Exists(fs, q)
    /\ (IsErr(result) /\ result.msg = "Cargo failed to compile the project! Aborting.")
            => FailedCompile

C3_Witness ==
    /\ FailedCompile
    /\ Last(trace).outcome = "nonzero"
    /\ idx = 2

ToolchainOps == {"cargo clean", "swift build", "cargo rustc"}
StageError(op) ==
    CASE op = "cargo clean" -> "Failed to clean old build files."
      [] op = "swift build" -> "Swift failed to compile the project! Aborting."
      [] op = "cargo rustc" -> "Cargo failed to compile the project! Aborting."
FailedToolchain(i) == trace[i].op \in ToolchainOps /\ trace[i].outcome # "ok"
ToolchainPcs == {"clean", "swift", "cargo"}

\* C4: a failed clean, swift build or cargo rustc ends the run there: it is the
\* last operation of the run, the failing step leaves the filesystem and the
\* working directory as they were, no step follows a failure, and each of the
\* three stages returns its own error string, which no other stage returns.
C4_ToolchainFailureStops ==
    /\ [](\A i \in 1..Len(trace) : FailedToolchain(i) =>
            /\ i = Len(trace)
            /\ pc = "failed"
            /\ result = Err(StageError(trace[i].op)))
    /\ [](\A op \in ToolchainOps :
            (IsErr(result) /\ result.msg = StageError(op)) =>
                (trace # <<>> /\ Last(trace).op = op /\ FailedToolchain(Len(trace))))
    /\ [][(pc \in ToolchainPcs /\ pc' = "failed") => (fs' = fs /\ cwd' = cwd)]_vars
    /\ [][pc # "failed"]_vars

C4_Witness ==
    /\ trace # <<>>
    /\ Last(trace).op = "swift build"
    /\ FailedToolchain(Len(trace))
    /\ idx = 3
    /\ \E q \in DOMAIN fs : Len(q) > 0 /\ Last(q) = "Payload"

\* both bridge keys are present with the types SwiftCtx::new asks for
BridgeConfigured ==
    /\ IsSome(ctx.cfg)
    /\ "swift-bridges" \in DOMAIN ctx.cfg.val
    /\ ctx.cfg.val["swift-bridges"].kind = "Array"
    /\ "swift-library" \in DOMAIN ctx.cfg.val
    /\ ctx.cfg.val["swift-library"].kind = "String"
ToolchainOpsOf(k) ==
    LET ev == SelectSeq(trace, LAMBDA e : e.target = k /\ e.op \in ToolchainOps)
    IN  [i \in 1..Len(ev) |-> ev[i].op]
ExpectedToolchainOps ==
    IF BridgeConfigured THEN <<"cargo clean", "swift build", "cargo rustc">>
    ELSE <<"cargo rustc">>
AfterCompilePcs == LoopPcs \ {"clean", "swift", "cargo"}

\* C5: per target the commands run in the order clean, swift build, cargo rustc;
\* clean and swift build run exactly when a bridge configuration is active, which
\* is exactly when static_args returned Some and set force_cargo_recompile; cargo
\* rustc runs whenever the earlier commands succeeded.
C5_ToolchainOrder ==
    statics # None =>
        /\ IsSome(statics.static_swift_args) <=> BridgeConfigured
        /\ ctx.force_cargo_recompile <=> BridgeConfigured
        /\ \A k \in 1..idx :
                /\ IsPrefix(ToolchainOpsOf(k), ExpectedToolchainOps)
                /\ (k < idx \/ pc \in AfterCompilePcs \/ pc = "done")
                        => ToolchainOpsOf(k) = ExpectedToolchainOps

C5_Witness ==
    /\ statics # None
    /\ BridgeConfigured
    /\ idx = 2
    /\ pc \in AfterCompilePcs
    /\ ToolchainOpsOf(2) = <<"cargo clean", "swift build", "cargo rustc">>

StageRank(e) ==
    CASE e.stage = "clean" -> 0
      [] e.stage = "bridge" -> 1
      [] e.stage = "primary" -> 2
      [] e.stage = "assemble" -> 3
      [] e.stage = "package" -> 4

\* C6 as stated: within a target the stages run in the order bridge compile,
\* primary compile, bundle assembly, packaging, and targets do not interleave.
C6_StagesInOrder ==
    \A i, j \in 1..Len(trace) : i < j =>
        /\ trace[i].target <= trace[j].target
        /\ trace[i].target = trace[j].target => StageRank(trace[i]) <= StageRank(trace[j])

\* the Packager's work before it calls the Bundle Assembler
PackagePreparation == {"remove stale ipa", "fresh Payload"}
PhaseRank(e) ==
    CASE e.stage = "clean" -> 0
      [] e.stage = "bridge" -> 1
      [] e.stage = "primary" -> 2
      [] e.stage = "package" /\ e.op \in PackagePreparation -> 3
      [] e.stage = "assemble" -> 4
      [] e.stage = "package" /\ e.op \notin PackagePreparation -> 5

\* C6 (amended): within a target the order is bridge compile, primary compile,
\* then for a mobile target the Packager's removal of a stale archive and its
\* fresh Payload directory, then bundle assembly, then the Packager's move of the
\* bundle and the archiver; every operation of a target precedes every operation
\* of the next target.
C6_StagesInCodeOrder ==
    \A i, j \in 1..Len(trace) : i < j =>
        /\ trace[i].target <= trace[j].target
        /\ trace[i].target = trace[j].target => PhaseRank(trace[i]) <= PhaseRank(trace[j])

C6_Witness ==
    /\ pc = "done"
    /\ Len(targets) = 4
    /\ BridgeConfigured
    /\ \E i, j \in 1..Len(trace) :
        /\ i < j
        /\ trace[i].target = 3 /\ trace[j].target = 3
        /\ trace[i].op = "fresh Payload" /\ trace[j].op = "copy binary"

\* the manifest has been generated and written to <cargo_ipa_dir>/Info.plist
ManifestWritten == map # None /\ IsFile(fs, Join(ctx.cargo_ipa_dir, "Info.plist"))
\* the properties table of the located Cargo.toml's cargo-ipa section
Overrides == IF IsSome(properties_of(ctx)) THEN properties_of(ctx).val ELSE EmptyTable

\* C7: for every mandatory key that the properties table overrides with a string,
\* the value in the generated manifest is exactly that string.
C7_OverrideExact ==
    ManifestWritten =>
        \A k \in MandatoryKeys \cap DOMAIN Overrides :
            Overrides[k].kind = "String" => map[k] = Overrides[k].str

\* C8: without an override for them, the manifest holds the five mandatory keys
\* with executable = example name if given, else project id; identifier = "com."
\* followed by the project id; name = the resolved project name; version and short
\* version = the project version.
C8_MandatoryDefaults ==
    ManifestWritten =>
        \A k \in MandatoryKeys \ DOMAIN Overrides :
            /\ k \in DOMAIN map
            /\ map[k] =
                CASE k = "CFBundleExecutable" ->
                        IF IsSome(args.example) THEN args.example.val ELSE ctx.project_id
                  [] k = "CFBundleIdentifier" -> "com." \o ctx.project_id
                  [] k = "CFBundleName" -> ctx.project_name
                  [] k = "CFBundleVersion" -> ctx.project_version
                  [] k = "CFBundleShortVersionString" -> ctx.project_version

C8_Witness ==
    /\ ManifestWritten
    /\ DOMAIN Overrides = {"CFBundleName"}
    /\ IsSome(args.example)
    /\ map["CFBundleExecutable"] = "demo_example"
    /\ map["CFBundleIdentifier"] = "com.demo"

\* C9 as stated: every manifest key is one of the five mandatory keys or an
\* override key, and without overrides the manifest has exactly five pairs.
C9_FiveKeys ==
    ManifestWritten =>
        /\ DOMAIN map \subseteq MandatoryKeys \cup DOMAIN Overrides
        /\ DOMAIN Overrides = {} => Cardinality(DOMAIN map) = 5

\* C9 (amended): every manifest key is one of the five mandatory keys, the fixed
\* key CFBundlePackageType (value APPL unless overridden) or an override key, and
\* without overrides the manifest has exactly six pairs.
C9_SixKeys ==
    ManifestWritten =>
        /\ DOMAIN map \subseteq MandatoryKeys \cup {"CFBundlePackageType"} \cup DOMAIN Overrides
        /\ MandatoryKeys \cup {"CFBundlePackageType"} \subseteq DOMAIN map
        /\ "CFBundlePackageType" \notin DOMAIN Overrides => map["CFBundlePackageType"] = "APPL"
        /\ DOMAIN Overrides = {} => Cardinality(DOMAIN map) = 6

C9_Witness ==
    /\ ManifestWritten
    /\ DOMAIN Overrides = {}
    /\ IsSome(ctx.cfg)
    /\ "properties" \in DOMAIN ctx.cfg.val
    /\ Cardinality(DOMAIN map) = 6

\* what the Cargo.toml that Ctx::new reads declares
LocatedToml == locate_cargo_toml(fs, StartDir)
TomlPackage ==
    IF IsSome(LocatedToml) /\ fs[LocatedToml.val].data.state = "valid"
    THEN TableGet(fs[LocatedToml.val].data.table, "package") ELSE None
ConfiguredName == IF IsSome(TomlPackage) THEN cargo_ipa_section(TomlPackage.val)[1] ELSE None
\* Ctx::new got as far as resolving the name
ReachedNameResolution ==
    /\ pc # "start"
    /\ IsSome(TomlPackage)
    /\ ~(result.tag = "Panic" /\ pc = "panicked" /\ ctx = None /\ result.msg # NAME_UNRESOLVED)

\* C10 as stated: the project name is the CLI argument, else the configured name,
\* else the package identifier, and resolution succeeds when neither is given.
C10_NameFallsBackToId ==
    ReachedNameResolution =>
        /\ ctx # None
        /\ ctx.project_name =
             IF IsSome(args.name) THEN args.name.val
             ELSE IF IsSome(ConfiguredName) THEN ConfiguredName.val
             ELSE ctx.project_id

\* C10 (amended): the project name is the CLI argument, else the name field of the
\* cargo-ipa table; when neither is given Ctx::new fails with "No project name
\* could be found!" and there is no fallback to the package identifier.
C10_NamePrecedence ==
    ReachedNameResolution =>
        IF IsSome(args.name) \/ IsSome(ConfiguredName)
        THEN /\ ctx # None
             /\ ctx.project_name =
                  IF IsSome(args.name) THEN args.name.val ELSE ConfiguredName.val
        ELSE /\ ctx = None
             /\ pc = "panicked"
             /\ result.msg = "No project name could be found!"

C10_Witness ==
    /\ ReachedNameResolution
    /\ IsSome(args.name)
    /\ IsSome(ConfiguredName)
    /\ args.name.val # ConfiguredName.val
    /\ ctx # None
    /\ ctx.project_name = "Demo"

\* the directories of the start directory's ancestor chain that hold a Cargo.toml,
\* as positions in the chain (1 = the start directory itself)
TomlHits ==
    {i \in 1..Len(Ancestors(StartDir)) :
        Exists(fs, Join(Ancestors(StartDir)[i], "Cargo.toml"))}
NearestToml ==
    Join(Ancestors(StartDir)[CHOOSE i \in TomlHits : \A j \in TomlHits : i <= j],
         "Cargo.toml")

\* C11: Ctx::new selects the Cargo.toml of the nearest ancestor of the current
\* directory (the directory itself first) that holds one, and reports that no
\* Cargo.toml was located only when no ancestor up to the root holds one.
C11_NearestManifest ==
    (pc # "start" /\ IsOk(os_cwd)) =>
        /\ ctx # None => (TomlHits # {} /\ ctx.cargo_toml = NearestToml)
        /\ (result = Panic("Failed to locate Cargo.toml")) <=> (TomlHits = {})

\* the operations of gen_app, in the order of its code, for the k-th target
AssemblyOps(k) ==
    <<"fresh app dir">> \o (IF targets[k][1] = "macOS" THEN <<"layout">> ELSE <<>>)
        \o <<"copy Info.plist", "copy binary", "chmod">>
AssemblyEvents(k) == SelectSeq(trace, LAMBDA e : e.target = k /\ e.stage = "assemble")
\* the errors gen_app returns from each of its operations
AssemblyErrors(op) ==
    CASE op = "fresh app dir" ->
            {"Error: App file already exists, and can't be removed: " \o OsError,
             "Error: Failed to create .app directory: " \o OsError}
      [] op = "layout" ->
            {"Error: Failed to create Contents directory in the app: " \o OsError,
             "Error: Failed to create MacOS directory in the app: " \o OsError}
      [] op = "copy Info.plist" -> {"Error: Failed to copy Info.plist to the new app"}
      [] op = "copy binary" -> {"Error: Failed to copy the binary to the new app"}
      [] op = "chmod" -> {"Error: Failed to make the app's binary executable"}
AssemblyOpNames == {"fresh app dir", "layout", "copy Info.plist", "copy binary", "chmod"}
AssemblyPcs == {"app_dir", "app_layout", "app_plist", "app_binary", "app_chmod"}
\* the bundle of the current target has reached the named step of gen_app
Done(k, op) == \E i \in 1..Len(trace) :
    trace[i].target = k /\ trace[i].op = op /\ trace[i].outcome = "ok"
InAssembly ==
    \/ pc \in AssemblyPcs
    \/ pc = "failed" /\ trace # <<>> /\ Last(trace).stage = "assemble"

\* C12: gen_app performs bundle directory, manifest copy, binary copy, chmod in
\* that order only (for macOS the Contents/MacOS layout comes right after the
\* bundle directory); a step runs only after every earlier step succeeded; a
\* failed step is the last operation of the run and returns an error that only
\* that step returns; the manifest, the binary and the executable bit appear in
\* the bundle only through their own step.
C12_AssemblyStateMachine ==
    /\ \A k \in 1..idx :
        LET ev == AssemblyEvents(k) IN
        /\ Len(ev) <= Len(AssemblyOps(k))
        /\ \A i \in 1..Len(ev) :
            /\ ev[i].op = AssemblyOps(k)[i]
            /\ i < Len(ev) => ev[i].outcome = "ok"
    /\ \A i \in 1..Len(trace) :
        (trace[i].stage = "assemble" /\ trace[i].outcome # "ok") =>
            /\ i = Len(trace)
            /\ pc = "failed"
            /\ IsErr(result)
            /\ result.msg \in AssemblyErrors(trace[i].op)
    /\ \A op \in AssemblyOpNames :
        (IsErr(result) /\ result.msg \in AssemblyErrors(op)) =>
            (trace # <<>> /\ Last(trace).op = op /\ Last(trace).target = idx)
    /\ InAssembly =>
        LET plist == new_info_plist_path(ctx, args, triple, platform = "macOS")
            bin == new_bin_path(ctx, args, triple, platform = "macOS")
        IN  /\ (Done(idx, "fresh app dir") /\ Exists(fs, plist)) => Done(idx, "copy Info.plist")
            /\ (Done(idx, "fresh app dir") /\ Exists(fs, bin)) => Done(idx, "copy binary")
            /\ (Exists(fs, bin) /\ fs[bin].exec) => Done(idx, "chmod")

C12_Witness ==
    /\ pc = "failed"
    /\ idx = 2
    /\ platform = "macOS"
    /\ Last(trace).op = "copy Info.plist"
    /\ result = Err("Error: Failed to copy Info.plist to the new app")
    /\ Done(2, "layout")
    /\ ~Done(2, "copy binary")
    /\ ~Exists(fs, new_bin_path(ctx, args, triple, TRUE))

\* gen_app has just returned Ok for the current target
AssembledOk == pc = "ipa_move" \/ (pc = "loop" /\ idx > 0 /\ platform = "macOS")
\* the entries below a directory, as paths relative to it
RelTree(f, b) == {SubSeq(q, Len(b) + 1, Len(q)) : q \in Tree(f, b)}
BinaryName == IF IsSome(args.example) THEN args.example.val ELSE ctx.project_id
GeneratedPlist == fs[Join(ctx.cargo_ipa_dir, "Info.plist")].data
CompiledBinary == fs[bin_path_of(ctx, args, triple)].data

\* C13: after a successful gen_app the bundle of a macOS target holds exactly
\* Contents/Info.plist and Contents/MacOS/<binary name> (and the two directories),
\* the bundle of an iOS target holds exactly Info.plist and <binary name> at its
\* root and no Contents directory; the manifest is the generated Info.plist and
\* the binary is the compiled one, made executable.
C13_PlatformLayout ==
    AssembledOk =>
        LET b == Join(ctx.cargo_ipa_dir, ctx.project_name \o "." \o triple \o ".app")
            plist == IF platform = "macOS" THEN <<"Contents", "Info.plist">>
                     ELSE <<"Info.plist">>
            bin == IF platform = "macOS" THEN <<"Contents", "MacOS", BinaryName>>
                   ELSE <<BinaryName>>
        IN  /\ IsDir(fs, b)
            /\ RelTree(fs, b) =
                 {<<>>, plist, bin}
                    \cup (IF platform = "macOS"
                          THEN {<<"Contents">>, <<"Contents", "MacOS">>} ELSE {})
            /\ platform = "iOS" => ~Exists(fs, Join(b, "Contents"))
            /\ fs[b \o plist] = [kind |-> "file", data |-> GeneratedPlist, exec |-> FALSE]
            /\ fs[b \o bin] = [kind |-> "file", data |-> CompiledBinary, exec |-> TRUE]
            /\ platform = "macOS" =>
                 (IsDir(fs, Join(b, "Contents")) /\ IsDir(fs, b \o <<"Contents", "MacOS">>))

C13_Witness ==
    /\ AssembledOk
    /\ idx = 2
    /\ platform = "macOS"
    /\ IsSome(args.example)
    /\ IsFile(fs, Join(ctx.cargo_ipa_dir, ctx.project_name \o "." \o triple \o ".app")
                    \o <<"Contents", "MacOS", "demo_example">>)
    /\ \E i \in 1..Len(trace) : trace[i].target = 1 /\ trace[i].op = "zip"

\* the filesystem without a directory and everything below it
Without(f, b) == [q \in {r \in DOMAIN f : ~IsPrefix(b, r)} |-> f[q]]
\* the content of a directory: relative path -> entry
Content(f, b) == [r \in RelTree(f, b) |-> f[b \o r]]
\* gen_app found a bundle directory of the same name and removed it
BundlePreExisted ==
    \E i \in 1..Len(trace) :
        /\ trace[i].target = idx
        /\ trace[i].op = "fresh app dir"
        /\ trace[i].argv = <<"remove_dir_all">>

\* C14: whatever the bundle directory of the same name held before, the bundle
\* directory a successful gen_app leaves is the one a successful gen_app leaves
\* when it starts without that directory; nothing of the earlier content survives.
C14_BundleIdempotent ==
    AssembledOk =>
        LET b == app_path_of(ctx, triple) IN
        Content(fs, b)
            = Content(gen_app_ok(Without(fs, b), ctx, args, triple, platform = "macOS"), b)

C14_Witness ==
    /\ AssembledOk
    /\ BundlePreExisted
    /\ platform = "iOS"
    /\ ~Exists(fs, Join(app_path_of(ctx, triple), "old_example"))
    /\ ~Exists(fs, Join(app_path_of(ctx, triple), "Contents"))

\* the file the archiver is told to write, resolved against the working directory
ArchiveWritten == Join(cwd, ctx.project_name \o "." \o triple \o ".ipa")
\* the archiver has just succeeded for the current target
ZipSucceeded ==
    /\ trace # <<>>
    /\ Last(trace).op = "zip"
    /\ Last(trace).outcome = "ok"
    /\ Last(trace).target = idx

\* C15: when the archiver is invoked no file exists at the path it writes to, so
\* the archive of a target holds only entries of the Payload directory of this
\* run; a stale archive that cannot be removed fails the packaging before the
\* archiver is invoked.
C15_NoStaleArchive ==
    /\ pc = "ipa_zip" => ~Exists(fs, ArchiveWritten)
    /\ ZipSucceeded =>
        /\ IsFile(fs, ArchiveWritten)
        /\ fs[ArchiveWritten].data.entries
             = [r \in {<<"Payload">> \o q : q \in RelTree(fs, Join(cwd, "Payload"))} |->
                    fs[cwd \o r]]
    /\ \A i \in 1..Len(trace) :
        (trace[i].op = "remove stale ipa" /\ trace[i].outcome # "ok") =>
            (i = Len(trace) /\ pc = "failed")

\* the zip archives lying directly in the tool working directory
Archives ==
    {q \in DOMAIN fs :
        Len(q) > 0 /\ Parent(q) = ctx.cargo_ipa_dir /\ IsFile(fs, q) /\ fs[q].data.type = "zip"}
SingleMobileRun ==
    /\ pc = "done"
    /\ args.platform = Some("iOS")
    /\ IsSome(args.architecture)

\* C16: a successful run for the mobile platform and one architecture leaves
\* exactly one archive; its file name is the bundle name immediately followed by
\* the triple and ".ipa", which is the path gen_ipa returns; it holds
\* Payload/<name>.<triple>.app with the generated manifest, in which
\* CFBundleIdentifier is "com." followed by the project id and CFBundleVersion is
\* the project version.
C16_SingleMobileArchive ==
    SingleMobileRun =>
        LET returned == ipa_file_of(ctx, triple)
            bundle == <<"Payload", ctx.project_name \o "." \o triple \o ".app">>
        IN  /\ Archives = {Join(ctx.cargo_ipa_dir, ctx.project_name \o triple \o ".ipa")}
            /\ Archives = {returned}
            /\ bundle \in DOMAIN fs[returned].data.entries
            /\ Join(bundle, "Info.plist") \in DOMAIN fs[returned].data.entries
            /\ \E o \in 0..(NumOrders - 1) :
                 fs[returned].data.entries[Join(bundle, "Info.plist")].data.text
                    = gen_info_plist(map, KeyOrder(map, o))
            /\ map["CFBundleIdentifier"] = "com." \o ctx.project_id
            /\ map["CFBundleVersion"] = ctx.project_version

\* a path the Packager owns: the Payload directory, what lies below it, and the
\* .ipa files of the tool working directory
PackagerPath(q) ==
    \/ IsPrefix(Join(ctx.cargo_ipa_dir, "Payload"), q)
    \/ /\ Len(q) > 0
       /\ Parent(q) = ctx.cargo_ipa_dir
       /\ Len(Last(q)) >= 4
       /\ SubSeq(Last(q), Len(Last(q)) - 3, Len(Last(q))) = ".ipa"
\* the k-th target has been processed to the end of the loop body
Processed(k) == k < idx \/ (k = idx /\ pc \in {"loop", "done"})

\* C17: a macOS target never reaches the Packager: no packaging operation is
\* performed for it, and while it is processed no archive and nothing in Payload
\* is created, removed or changed and the working directory stays the same; its
\* bundle directory lies directly in the tool working directory and stays there.
C17_PackagerOnlyForMobile ==
    /\ [](\A i \in 1..Len(trace) :
            trace[i].stage = "package" => targets[trace[i].target][1] = "iOS")
    /\ [][(idx > 0 /\ idx' = idx /\ platform = "macOS") =>
            /\ cwd' = cwd
            /\ pc' \notin {"ipa_stale", "ipa_payload", "ipa_move", "ipa_chdir", "ipa_zip"}
            /\ \A q \in (DOMAIN fs) \cup (DOMAIN fs') :
                 PackagerPath(q) => (q \in DOMAIN fs /\ q \in DOMAIN fs' /\ fs'[q] = fs[q])]_vars
    /\ [](\A k \in 1..idx :
            (targets[k][1] = "macOS" /\ Processed(k)) =>
                IsDir(fs, Join(ctx.cargo_ipa_dir,
                               ctx.project_name \o "." \o target_triple("macOS", targets[k][2])
                                    \o ".app")))

C17_Witness ==
    /\ pc = "done"
    /\ Len(targets) = 4
    /\ cwd = ctx.cargo_ipa_dir
    /\ IsDir(fs, Join(ctx.cargo_ipa_dir, ctx.project_name \o ".x86_64-apple-darwin.app"))
    /\ IsDir(fs, Join(ctx.cargo_ipa_dir, "Payload"))
    /\ ~Contains([i \in 1..Len(trace) |-> <<trace[i].target, trace[i].stage>>],
                 <<2, "package">>)

BundleName(k) == ctx.project_name \o "." \o target_triple(targets[k][1], targets[k][2]) \o ".app"
PayloadDir == Join(ctx.cargo_ipa_dir, "Payload")
\* the k-th target's bundle directory is on disk, in the tool working directory
\* or in its Payload directory
BundleOnDisk(k) ==
    \/ IsDir(fs, Join(ctx.cargo_ipa_dir, BundleName(k)))
    \/ IsDir(fs, Join(PayloadDir, BundleName(k)))
\* an archive of the tool working directory holds the k-th target's bundle
ArchiveOf(k) ==
    \E q \in Archives : <<"Payload", BundleName(k)>> \in DOMAIN fs[q].data.entries
MobileTargets == {k \in 1..Len(targets) : targets[k][1] = "iOS"}
RunSucceeded == pc = "done"

\* C18 as stated: after a run that succeeds for every target the tool working
\* directory holds the generated manifest, the bundle directory of every target
\* built, and an archive for every mobile target built.
C18_AllBundlesKept ==
    RunSucceeded =>
        /\ IsFile(fs, Join(ctx.cargo_ipa_dir, "Info.plist"))
        /\ \A k \in 1..Len(targets) : BundleOnDisk(k)
        /\ \A k \in MobileTargets : ArchiveOf(k)

\* C18 (amended): after a run that succeeds for every target the tool working
\* directory holds the generated manifest, directly the bundle directory of every
\* macOS target, an archive <name>.<triple>.ipa holding the bundle of every mobile
\* target, and a Payload directory whose only entry is the bundle of the last
\* mobile target; the bundle directory of an earlier mobile target is no longer on
\* disk.
C18_FinalLayout ==
    RunSucceeded =>
        /\ IsFile(fs, Join(ctx.cargo_ipa_dir, "Info.plist"))
        /\ \A k \in 1..Len(targets) :
            IF targets[k][1] = "macOS"
            THEN IsDir(fs, Join(ctx.cargo_ipa_dir, BundleName(k)))
            ELSE /\ ~Exists(fs, Join(ctx.cargo_ipa_dir, BundleName(k)))
                 /\ LET a == Join(ctx.cargo_ipa_dir,
                                  ctx.project_name \o "." \o target_triple("iOS", targets[k][2])
                                        \o ".ipa")
                    IN  /\ IsFile(fs, a)
                        /\ fs[a].data.type = "zip"
                        /\ <<"Payload", BundleName(k)>> \in DOMAIN fs[a].data.entries
                 /\ IsDir(fs, Join(PayloadDir, BundleName(k)))
                        <=> (\A j \in MobileTargets : j <= k)
        /\ MobileTargets # {} =>
            {q \in DOMAIN fs : Len(q) > 0 /\ Parent(q) = PayloadDir}
                = {Join(PayloadDir, BundleName(CHOOSE k \in MobileTargets :
                                                    \A j \in MobileTargets : j <= k))}

C18_Witness ==
    /\ RunSucceeded
    /\ Len(targets) = 4
    /\ ~BundleOnDisk(1)
    /\ BundleOnDisk(3)
    /\ ArchiveOf(1)
    /\ ArchiveOf(3)

\* the bridge keys present in the tool-configuration table
BridgeKeys ==
    IF IsSome(ctx.cfg) THEN {"swift-bridges", "swift-library"} \cap DOMAIN ctx.cfg.val
    ELSE {}
\* build() has gone on past the bridge configuration
Proceeded == statics # None

\* C19: with exactly one of swift-bridges and swift-library in the configuration
\* table the build fails with a bridge-configuration error instead of proceeding;
\* with both keys absent it proceeds without bridging.
C19_IncompleteBridgeFails ==
    (ctx # None /\ pc # "setup") =>
        /\ Cardinality(BridgeKeys) = 1 =>
            /\ ~Proceeded
            /\ result.tag \in {"Err", "Panic"}
            /\ result.msg \in {"No swift-bridges setting set!", "No swift-library setting set!"}
        /\ BridgeKeys = {} =>
            (Proceeded /\ ~IsSome(statics.static_swift_args))

\* the cargo-ipa block of the Cargo.toml that Ctx::new reads, when there is one
ConfigBlock ==
    IF IsSome(TomlPackage) /\ IsSome(ValueGet(TomlPackage.val, "metadata"))
    THEN ValueGet(ValueGet(TomlPackage.val, "metadata").val, "cargo-ipa")
    ELSE None
NonTableBlock == IsSome(ConfigBlock) /\ ConfigBlock.val.kind # "Table"
\* the same filesystem with the cargo-ipa block taken out of that Cargo.toml
BlockAbsent ==
    LET path == LocatedToml.val
        pkg == TomlPackage.val.tab
        meta == pkg["metadata"].tab
        meta2 == [k \in (DOMAIN meta) \ {"cargo-ipa"} |-> meta[k]]
        pkg2 == [pkg EXCEPT !["metadata"] = TTable(meta2)]
    IN  [fs EXCEPT ![path].data.table = Rec1("package", TTable(pkg2))]
IoChoices == [mkdir_target : BOOLEAN, mkdir_ipa : BOOLEAN, read_toml : BOOLEAN]

\* C20: a cargo-ipa block that is present but not a table is not fatal: for every
\* CLI name argument and package table Ctx::new returns what it returns for the
\* same Cargo.toml without the block (the same error, or the same context with
\* cfg = None and the same project name).
C20_NonTableBlockAsAbsent ==
    NonTableBlock =>
        /\ pc = "start" =>
            \A io \in IoChoices :
                Ctx_new(args.name, os_cwd, fs, io).res
                    = Ctx_new(args.name, os_cwd, BlockAbsent, io).res
        /\ pc # "start" =>
            \E io \in IoChoices :
                LET r == Ctx_new(args.name, os_cwd, BlockAbsent, io).res IN
                IF IsOk(r) THEN ctx = r.val /\ ctx.cfg = None
                ELSE ctx = None /\ pc = "panicked" /\ result = Panic(r.msg)

C20_Witness ==
    /\ NonTableBlock
    /\ ConfigBlock.val.kind = "String"
    /\ pc = "plist"
    /\ ctx.cfg = None
    /\ ctx.project_name = "Demo"

\* the run has ended: build() returned or the process aborted
Ended == pc \in {"done", "failed", "panicked"}
\* some operation of the run did not succeed
SomeFailure == \E i \in 1..Len(trace) : trace[i].outcome # "ok"

\* C21: every fatal condition of the build subcommand, the failures of Ctx::new
\* included, comes back from build() as Err with a message; build() never ends in
\* a panic, and it returns Ok only when no operation failed.
C21_ErrorsReturned ==
    /\ result.tag # "Panic"
    /\ pc # "panicked"
    /\ Ended => (IsOk(result) \/ IsErr(result))
    /\ IsOk(result) => ~SomeFailure

\* the entries lying directly in a directory
Children(f, d) == {q \in DOMAIN f : Len(q) > 0 /\ Parent(q) = d}
ArchiverInvoked == pc = "ipa_zip"

\* C22: whenever the archiver is about to run for a mobile target, Payload holds
\* exactly one entry, the bundle directory of the current target as this call of
\* gen_ipa assembled it (generated manifest, compiled binary made executable);
\* nothing of an earlier target or an earlier run is in it.
C22_PayloadHoldsOnlyCurrentBundle ==
    ArchiverInvoked =>
        LET staged == Join(PayloadDir, BundleName(idx)) IN
        /\ platform = "iOS"
        /\ Children(fs, PayloadDir) = {staged}
        /\ Content(fs, staged) =
             (<<>> :> Dir)
                @@ (<<"Info.plist">> :>
                        [kind |-> "file", data |-> GeneratedPlist, exec |-> FALSE])
                @@ (<<BinaryName>> :>
                        [kind |-> "file", data |-> CompiledBinary, exec |-> TRUE])

C22_Witness ==
    /\ ArchiverInvoked
    /\ idx = 3
    /\ Done(1, "move bundle")
    /\ Exists(fs, IpaDir \o <<"Demo.aarch64-apple-darwin.app", "Contents", "MacOS",
                              "old_example">>)
    /\ Children(fs, PayloadDir) = {Join(PayloadDir, "Demo.aarch64-apple-ios.app")}

RECURSIVE TargetsFrom(_, _)
\* the filesystem left when the targets from the k-th on are built without failure
TargetsFrom(f, k) ==
    IF k > Len(targets) THEN f
    ELSE TargetsFrom(target_ok(f, ctx, args, targets[k][1], targets[k][2]), k + 1)
\* the project with an empty tool working directory that holds only the manifest
\* this run generated
EmptyToolDir ==
    LET plist == Join(ctx.cargo_ipa_dir, "Info.plist") IN
    Put(Put(Without(fs, ctx.cargo_ipa_dir), ctx.cargo_ipa_dir, Dir), plist, fs[plist])
RecoveredOk == Recovering /\ pc = "done"

ExternalCommands == {"cargo clean", "swift build", "cargo rustc", "chmod", "zip"}

\* the packager has changed the working directory: the archiver call follows
\* set_current_dir at once, whatever its outcome
Packaged(n) == \E j \in 1..n : trace[j].op = "zip"

\* C24: the working directory is the start directory until the first mobile
\* target reaches the packager and the tool working directory from then on,
\* for the rest of the run; every external command launched after that point,
\* of that target or a later one, is launched from the tool working directory,
\* and no operation of a target follows its archiver call
C24_WorkingDirectoryNeverRestored ==
    /\ cwd = IF Packaged(Len(trace)) \/ pc = "ipa_zip" THEN ctx.cargo_ipa_dir ELSE StartDir
    /\ \A i \in 1..Len(trace) :
         /\ trace[i].cwd = IF Packaged(i) THEN ctx.cargo_ipa_dir ELSE StartDir
         /\ trace[i].op = "zip" =>
              \A j \in (i + 1)..Len(trace) : trace[j].target > trace[i].target

\* a desktop target that follows a packaged mobile target has been compiled and
\* its binary marked executable, both from the tool working directory
C24_Witness ==
    /\ pc = "done"
    /\ Len(targets) = 4
    /\ \E i, j \in 1..Len(trace) :
         /\ trace[i].op = "cargo rustc" /\ trace[i].target = 2
         /\ trace[j].op = "chmod" /\ trace[j].target = 4
         /\ trace[i].cwd = ctx.cargo_ipa_dir /\ trace[j].cwd = ctx.cargo_ipa_dir
         /\ ctx.cargo_ipa_dir # StartDir

\* ------------------------------------------------ C25: the manifest text

\* the manifest has just been generated and written
ManifestJustWritten == pc = "loop" /\ idx = 0 /\ ManifestWritten
PlistText == fs[Join(ctx.cargo_ipa_dir, "Info.plist")].data.text
\* what lies between the preamble and the trailer
PlistBody(text) == SubSeq(text, Len(PLIST_OPENING) + 1, Len(text) - Len(PLIST_CLOSING))
\* the pair of one entry, key and value as they are in the mapping
PlistPair(k, v) == "<key>" \o k \o "</key>\n" \o "<string>" \o v \o "</string>\n"

\* the number of places of s where n starts
Occurrences(s, n) ==
    Cardinality({i \in 1..(Len(s) - Len(n) + 1) : SubSeq(s, i, i + Len(n) - 1) = n})

RECURSIVE PairsLength(_, _)
PairsLength(m, keys) ==
    IF keys = {} THEN 0
    ELSE LET k == CHOOSE x \in keys : TRUE
         IN  Len(PlistPair(k, m[k])) + PairsLength(m, keys \ {k})

\* text is the preamble, one verbatim pair per entry of m and nothing else, then
\* the trailer
IsPlistOf(text, m) ==
    /\ Len(text) >= Len(PLIST_OPENING) + Len(PLIST_CLOSING)
    /\ SubSeq(text, 1, Len(PLIST_OPENING)) = PLIST_OPENING
    /\ SubSeq(text, Len(text) - Len(PLIST_CLOSING) + 1, Len(text)) = PLIST_CLOSING
    /\ \A k \in DOMAIN m : Occurrences(PlistBody(text), PlistPair(k, m[k])) = 1
    /\ Len(PlistBody(text)) = PairsLength(m, DOMAIN m)
    /\ Occurrences(PlistBody(text), "</string>\n") = Cardinality(DOMAIN m)

\* C25: the manifest text written is the fixed preamble, then for each entry of
\* the mapping exactly one pair <key>K</key> newline <string>V</string> newline
\* with K and V as they are in the mapping, unescaped, then the fixed trailer;
\* there are as many pairs as entries, and whatever order the mapping was
\* iterated in, the text holds the same pairs: those of the mapping.
C25_ManifestTextVerbatim == ManifestJustWritten => IsPlistOf(PlistText, map)

\* a value with markup characters has been written, and the iteration orders
\* give different texts
C25_Witness ==
    /\ ManifestJustWritten
    /\ "UIRequiresFullScreen" \in DOMAIN map
    /\ map["UIRequiresFullScreen"] = "\"<R&D>\""
    /\ Occurrences(PlistText, "<string>\"<R&D>\"</string>\n") = 1
    /\ Cardinality(DOMAIN map) = 7
    /\ gen_info_plist(map, KeyOrder(map, 0)) # gen_info_plist(map, KeyOrder(map, 1))

\* ------------------------------------------------ C26: the cargo rustc arguments

\* the Swift build step runs for the targets of this run
SwiftStepActive == statics # None /\ IsSome(statics.static_swift_args)
Selectors ==
    (IF args.release THEN <<"--release">> ELSE <<>>)
        \o (IF IsSome(args.example) THEN <<"--example", args.example.val>> ELSE <<>>)
PrimaryTripleOf(k) == target_triple(targets[k][1], targets[k][2])
\* the Xcode toolchain's Swift library directory of target k's platform
ToolchainLibDir(k) ==
    statics.xcode_toolchain \o "/" \o (IF targets[k][1] = "macOS" THEN "macosx" ELSE "iphoneos")
LinkArgs == {"-l", "-L", "/usr/lib/swift"}
Elements(sq) == {sq[i] : i \in 1..Len(sq)}

\* C26 as stated: without the Swift build step the cargo rustc arguments are the
\* build command, the primary triple and the release and example selectors and
\* nothing else; no search path and no static-link argument is among them.
C26_LinkArgsOnlyWithBridge ==
    \A i \in 1..Len(trace) :
        (trace[i].op = "cargo rustc" /\ ~SwiftStepActive) =>
            /\ Elements(trace[i].argv) \subseteq
                 {"rustc", "--target", PrimaryTripleOf(trace[i].target)} \cup Elements(Selectors)
            /\ Elements(trace[i].argv) \cap LinkArgs = {}

\* C26 (amended): the cargo rustc arguments are always rustc --target <triple> -q,
\* the release and example selectors, the separator -- and, last, -L with the
\* Xcode toolchain's Swift library directory of the target's platform; only when
\* the Swift build step runs do -l static=<library>, -L <swift build path> and
\* -L /usr/lib/swift stand between the separator and that last search path.
C26_BridgeLinkArgs ==
    \A i \in 1..Len(trace) :
        trace[i].op = "cargo rustc" =>
            LET k == trace[i].target
                argv == trace[i].argv
                always == <<"rustc", "--target", PrimaryTripleOf(k), "-q">> \o Selectors \o <<"--">>
                last == <<"-L", ToolchainLibDir(k)>>
                middle == SubSeq(argv, Len(always) + 1, Len(argv) - 2)
            IN  /\ Len(argv) >= Len(always) + 2
                /\ SubSeq(argv, 1, Len(always)) = always
                /\ SubSeq(argv, Len(argv) - 1, Len(argv)) = last
                /\ IF SwiftStepActive
                   THEN /\ Len(middle) = 6
                        /\ middle[1] = "-l"
                        /\ SubSeq(middle[2], 1, 7) = "static="
                        /\ middle[3] = "-L"
                        /\ <<middle[5], middle[6]>> = <<"-L", "/usr/lib/swift">>
                   ELSE middle = <<>>

\* a run without the Swift build step has compiled a target, with both selectors
C26_Witness ==
    /\ trace # <<>>
    /\ Last(trace).op = "cargo rustc"
    /\ Last(trace).outcome = "ok"
    /\ ~SwiftStepActive
    /\ args.release /\ IsSome(args.example)
    /\ Contains(Last(trace).argv, "-L")

\* a run with the Swift build step has compiled a mobile target
C26_WithBridge ==
    /\ trace # <<>>
    /\ Last(trace).op = "cargo rustc"
    /\ SwiftStepActive
    /\ targets[idx][1] = "iOS"
    /\ Contains(Last(trace).argv, "static=SwiftLib")

\* ------------------------------------------------ C27: Ok means every target is complete

\* the matrix gen_targets_list generates for the arguments of the run
Matrix == gen_targets_list(args)
\* target k went through all its stages: compiled, bundle assembled up to the
\* chmod of its binary, and for a mobile target archived
TargetComplete(k) ==
    /\ Done(k, "cargo rustc")
    /\ Done(k, "chmod")
    /\ Matrix[k][1] = "iOS" => Done(k, "zip")
ReturnedOk == pc = "done" /\ result = Ok("Done!")

\* C27: build has returned Ok exactly when it has ended and every target of the
\* generated matrix has completed all of its stages: its primary compile
\* succeeded, its bundle reached the chmod of the binary, and for a mobile target
\* the archiver succeeded; no run with a skipped or incomplete target returns Ok.
C27_OkIffAllTargetsComplete ==
    /\ result.tag = "Ok" <=> pc = "done"
    /\ ReturnedOk <=> (Ended /\ \A k \in 1..Len(Matrix) : TargetComplete(k))
    /\ ReturnedOk => targets = Matrix /\ idx = Len(Matrix)

C27_Witness ==
    /\ ReturnedOk
    /\ Len(Matrix) = 4
    /\ \A k \in 1..4 : TargetComplete(k)
    /\ Done(1, "zip") /\ Done(3, "zip") /\ ~Done(2, "zip")

\* a run that completed its first targets and then failed
C27_Incomplete ==
    /\ pc = "failed"
    /\ Len(Matrix) = 4
    /\ TargetComplete(1) /\ TargetComplete(2) /\ TargetComplete(3)
    /\ Done(4, "cargo rustc") /\ ~Done(4, "chmod")

\* ------------------------------------------------ C28: triples and names do not collide

AllTargets == Platforms \X Architectures
\* the top-level bundle directory and the archive of the k-th target
TopBundle(k) == Join(ctx.cargo_ipa_dir, app_name_of(ctx, PrimaryTripleOf(k)))
ArchiveName(k) == zip_name_of(ctx, PrimaryTripleOf(k))

TriplesDistinct ==
    /\ \A t, u \in AllTargets :
         t # u => /\ target_triple(t[1], t[2]) # target_triple(u[1], u[2])
                  /\ get_target_triple(t[1], t[2]) # get_target_triple(u[1], u[2])
    /\ \A t \in AllTargets : target_triple(t[1], t[2]) # get_target_triple(t[1], t[2])
    /\ \A t \in AllTargets :
         target_triple(t[1], t[2])
            = (IF t[2] = "x86_64" THEN "x86_64" ELSE "aarch64") \o "-apple-"
                \o (IF t[1] = "iOS" THEN "ios" ELSE "darwin")

NamesDistinct ==
    TargetsGenerated =>
        \A j, k \in 1..Len(targets) :
            j # k => /\ targets[j] # targets[k]
                     /\ TopBundle(j) # TopBundle(k)
                     /\ ArchiveName(j) # ArchiveName(k)

\* a step of the loop leaves the top-level bundle directory of every target
\* other than the current one in place
KeepsOtherBundles ==
    pc \in LoopPcs =>
        \A k \in 1..Len(targets) :
            (k # idx /\ IsDir(fs, TopBundle(k))) => IsDir(fs', TopBundle(k))

\* C28: distinct targets have distinct primary triples (architecture, -apple-,
\* ios or darwin) and distinct Swift triples, and the two triples of a target
\* differ; so in a run no two targets share a bundle directory name or an
\* archive name, and no step taken for one target, its bundle assembly
\* included, removes the top-level bundle directory of another target.
C28_TriplesAndNamesDistinct ==
    [](TriplesDistinct /\ NamesDistinct) /\ [][KeepsOtherBundles]_vars

\* the last desktop target has replaced its own stale bundle while the bundle
\* of the other desktop target, assembled earlier in the run, is still there
C28_Witness ==
    /\ pc = "loop"
    /\ Len(targets) = 4
    /\ idx = 4
    /\ \E i \in 1..Len(trace) :
         /\ trace[i].target = 4
         /\ trace[i].op = "fresh app dir"
         /\ trace[i].argv = <<"remove_dir_all">>
    /\ IsDir(fs, TopBundle(2))
    /\ IsDir(fs, TopBundle(4))
    /\ TopBundle(2) # TopBundle(4)

\* ------------------------------------------------ C29: the two Swift triples agree

SwiftBuildEvents == SelectSeq(trace, LAMBDA e : e.op = "swift build")

\* what compile_and_link_swift derives for each target from its Rust triple:
\* <<target, Swift triple, inferred platform>>
LibDerived ==
    {<<t, lib_target_triple(target_triple(t[1], t[2])),
       lib_platform(lib_target_triple(target_triple(t[1], t[2])))>> : t \in AllTargets}
\* the two derivations agree for each of the four targets
DerivationsAgree ==
    \A t \in AllTargets : <<t, get_target_triple(t[1], t[2]), t[1]>> \in LibDerived

\* C29: for each of the four targets the Swift triple of get_target_triple is
\* the string compile_and_link_swift makes from the target's Rust triple by
\* replacing aarch64 with arm64, ios with ios14 and darwin with macosx11, and
\* the platform inferred from that string is the target's platform; so the
\* triple and SDK every swift build of a run was given are the ones the build
\* script would use for the same target.
C29_SwiftTriplesAgree ==
    /\ DerivationsAgree
    /\ \A i \in 1..Len(SwiftBuildEvents) :
         LET e == SwiftBuildEvents[i]
             t == targets[e.target]
         IN  \E p \in Platforms :
                /\ <<t, e.argv[5], p>> \in LibDerived
                /\ p = t[1]
                /\ e.argv[7] = get_sdk(p)

\* the Swift package has been built for all four targets
C29_Witness ==
    /\ Len(SwiftBuildEvents) = 4
    /\ SwiftBuildEvents[1].argv[5] = "x86_64-apple-ios14"
    /\ SwiftBuildEvents[2].argv[5] = "x86_64-apple-macosx11"
    /\ SwiftBuildEvents[3].argv[5] = "arm64-apple-ios14"
    /\ SwiftBuildEvents[4].argv[5] = "arm64-apple-macosx11"
    /\ lib_target_triple("aarch64-apple-darwin") = "arm64-apple-macosx11"
    /\ lib_platform("arm64-apple-macosx11") = "macOS"

====
